---- MODULE Spec2Model ----
(***************************************************************************)
(* dagit: the object-store reader, the change detector, the repository     *)
(* aggregate and the graph builder, as state machines.                      *)
(*                                                                         *)
(*   SpecDecode  the object decoder (NewObject, GetType, GetSize,          *)
(*               findFirstMatch) applied to byte sequences                 *)
(*   Spec        a Repo shared by concurrent callers (NewRepo, Changed,    *)
(*               refresh, ToJsonGraph) next to a process that mutates the  *)
(*               store                                                      *)
(*   SpecSingle  the same with one caller                                   *)
(*   SpecGraph   ToJsonGraph over a fixed object map, with ParallelWork's  *)
(*               goroutines and channels                                    *)
(*   SpecTree    ParseTree applied to serialized trees and their prefixes  *)
(*   SpecCommit  ParseCommit applied to serialized commits                 *)
(*   SpecBlob    ParseBlob applied to blob objects                         *)
(*   SpecServer  one websocket connection: serveWs, its reader and its     *)
(*               writer goroutine, next to a process that mutates the store*)
(*   SpecChan    the channel-based graph builder of gitutils.go            *)
(*   SpecPool    ParallelWork for any number of inputs and of workers,     *)
(*               with a consumer that ranges over the returned channel     *)
(***************************************************************************)
EXTENDS Integers, Sequences, FiniteSets, TLC

VARIABLES
    \* ---- SpecDecode
    data,        \* the decompressed payload handed to NewObject
    decoded,     \* whether NewObject was called, and what it returned
    written,     \* SpecTree, SpecCommit, SpecBlob: what the content in data was written from
    \* ---- the store on disk (Spec, SpecSingle)
    disk,        \* id -> state of the loose object file .git/objects/xx/yyyy
    stray,       \* a hex-named file under the location, outside .git/objects
    rootOK,      \* the walked directories are readable
    head,        \* the HEAD file
    heads,       \* the files under .git/refs/heads, in walk order
    mutations,   \* number of store mutations so far
    limit,       \* number of store mutations the behaviour is followed for
    \* ---- the process and its Repo
    status,      \* "running", or how the process ended
    Objects,     \* Repo.Objects
    Checksum,    \* Repo.Checksum
    openPc,      \* position of NewRepo
    openObjects, \* NewRepo's local objects
    callers,     \* the goroutines that use the Repo
    pc,          \* caller -> position
    dirHash,     \* caller -> Changed's local dirHash
    ret,         \* caller -> what its last Changed call returned
    scanned,     \* caller -> refresh's local objects
    snap,        \* caller -> the locals of its ToJsonGraph call
    \* ---- SpecGraph: one goroutine in ToJsonGraph, ParallelWork's goroutines
    gpc,         \* position of the goroutine that called ToJsonGraph
    commits,     \* ToJsonGraph's commits
    inputs,      \* ToJsonGraph's inputs not yet sent on tasks
    tasks,       \* the buffered channel tasks, and whether it is closed
    results,     \* whether the unbuffered channel results is closed
    wg,          \* the WaitGroup's counter
    wpc,         \* worker -> position
    wval,        \* worker -> the result it is sending
    nodes,       \* ToJsonGraph's nodes
    edges,       \* ToJsonGraph's edges
    docs,        \* the documents returned so far
    \* ---- SpecServer: one websocket connection (serveWs, reader, writer)
    numFiles,    \* *numFiles, the file count of .git at the connection's last poll
    conn,        \* the connection ws: "open" or "closed"
    rd,          \* position of the goroutine that runs reader
    wr,          \* position of the goroutine that runs writer
    tickers,     \* pingTicker and repoTicker: "running" or "stopped"
    hist         \* history: what the claims need to remember

decodeVars == <<data, decoded, written>>
storeVars == <<disk, stray, rootOK, head, heads, mutations, limit>>
repoVars == <<status, Objects, Checksum, openPc, openObjects>>
callerVars == <<callers, pc, dirHash, ret, scanned, snap>>
graphVars == <<gpc, commits, inputs, tasks, results, wg, wpc, wval, nodes, edges, docs>>
connVars == <<numFiles, conn, rd, wr, tickers>>
vars == <<decodeVars, storeVars, repoVars, callerVars, graphVars, connVars, hist>>

(***************************************************************************)
(* Bytes                                                                   *)
(***************************************************************************)
space == 32
nul == 0

\* unicode.IsSpace on single bytes of a UTF-8 string: \t \n \v \f \r and ' '
Whitespace == {9, 10, 11, 12, 13, 32}

\* data[lo:hi] of Go, 0-based, lo <= hi <= len
Slice(s, lo, hi) == [i \in 1..(hi - lo) |-> s[lo + i]]

RECURSIVE TrimLeft(_)
TrimLeft(s) == IF s # <<>> /\ Head(s) \in Whitespace THEN TrimLeft(Tail(s)) ELSE s

RECURSIVE TrimRight(_)
TrimRight(s) ==
    IF s # <<>> /\ s[Len(s)] \in Whitespace THEN TrimRight(SubSeq(s, 1, Len(s) - 1)) ELSE s

\* strings.TrimSpace
TrimSpace(s) == TrimRight(TrimLeft(s))

NotFound == -1

\* utils.go findFirstMatch: the index of the first byte equal to match at or
\* after start, NotFound (with an error) when there is none.
RECURSIVE findFirstMatchFrom(_, _, _)
findFirstMatchFrom(match, i, bytes) ==
    IF i >= Len(bytes) THEN NotFound
    ELSE IF bytes[i + 1] = match THEN i
    ELSE findFirstMatchFrom(match, i + 1, bytes)

findFirstMatch(match, start, bytes) == findFirstMatchFrom(match, start, bytes)

(***************************************************************************)
(* Object decoder                                                          *)
(***************************************************************************)
\* A Go runtime panic (index or slice out of range, nil dereference) ends the
\* process; an operator that can panic returns a record with panic set.
Panicked == [panic |-> TRUE]

\* git_tools.go GetType: (type, spaceIndex, err)
GetType(bytes) ==
    LET spaceIndex == findFirstMatch(space, 0, bytes)
    IN  IF spaceIndex = NotFound
        THEN [type |-> <<>>, spaceIndex |-> -1, err |-> TRUE]
        ELSE [type |-> TrimSpace(Slice(bytes, 0, spaceIndex)),
              spaceIndex |-> spaceIndex, err |-> FALSE]

\* GetSize looking for the NUL from the start of the payload
GetSizeFromStart(spaceIndex, bytes) ==
    LET nulIndex == findFirstMatch(nul, 0, bytes)
    IN  IF nulIndex = NotFound
        THEN [panic |-> FALSE, size |-> <<>>, contentStart |-> -1, err |-> TRUE]
        ELSE IF spaceIndex < 0 \/ spaceIndex > nulIndex
        THEN Panicked
        ELSE [panic |-> FALSE, size |-> TrimSpace(Slice(bytes, spaceIndex, nulIndex)),
              contentStart |-> nulIndex + 1, err |-> FALSE]

\* git_tools.go GetSize: (size, contentStart, err); the slice
\* data[spaceIndex:nulIndex] panics when it is out of range.
GetSize(spaceIndex, bytes) ==
    LET nulIndex == findFirstMatch(nul, spaceIndex + 1, bytes)
    IN  IF nulIndex = NotFound
        THEN [panic |-> FALSE, size |-> <<>>, contentStart |-> -1, err |-> TRUE]
        ELSE IF spaceIndex < 0 \/ spaceIndex > nulIndex
        THEN Panicked
        ELSE [panic |-> FALSE, size |-> TrimSpace(Slice(bytes, spaceIndex, nulIndex)),
              contentStart |-> nulIndex + 1, err |-> FALSE]

\* NewObject after getBytes: both errors are only logged, then the content
\* is sliced at contentStart whatever GetSize returned.
NewObject(bytes) ==
    LET t == GetType(bytes)
        s == GetSize(t.spaceIndex, bytes)
    IN  IF s.panic THEN Panicked
        ELSE IF s.contentStart < 0 \/ s.contentStart > Len(bytes) THEN Panicked
        ELSE [panic |-> FALSE, Type |-> t.type, Size |-> s.size,
              Content |-> Slice(bytes, s.contentStart, Len(bytes))]

(***************************************************************************)
(* The store: loose objects, one hex-named file outside the object subtree,*)
(* HEAD and the branch files                                               *)
(***************************************************************************)
\* Bounds of the model
MaxMutations == 2
MaxRaceMutations == 1
MaxObjects == 3
NumWorkers == 2
MaxLen == 4

\* The bytes of "blob", "tree", "commit"
TypeBytes(t) ==
    CASE t = "blob" -> <<98, 108, 111, 98>>
      [] t = "tree" -> <<116, 114, 101, 101>>
      [] t = "commit" -> <<99, 111, 109, 109, 105, 116>>

\* string(bytes) for a type field: the three kinds the code switches on, and
\* one name for every other byte sequence.
TypeName(bytes) ==
    IF \E t \in {"blob", "tree", "commit"} : TypeBytes(t) = bytes
    THEN CHOOSE t \in {"blob", "tree", "commit"} : TypeBytes(t) = bytes
    ELSE "other"

\* The objects git can write into this store, in the order a directory walk
\* meets their files. An object's id is the hash of its content, so an id
\* has one content: a blob, a tree and three commits of which c1 and c2
\* carry the same commit time. s1 is an object kept outside .git/objects
\* (a submodule's object under .git/modules). t2 is a tree whose one entry is
\* the subtree t1, and c4 the commit of t2.
AllIds == <<"s1", "b1", "c1", "c2", "c3", "t1", "c4", "t2">>
StrayId == "s1"
ObjectIds == {"b1", "c1", "t1"}

Catalog ==
    [s1 |-> [type |-> "blob", tree |-> "", parents |-> <<>>, time |-> 0, entries |-> <<>>],
     b1 |-> [type |-> "blob", tree |-> "", parents |-> <<>>, time |-> 0, entries |-> <<>>],
     t1 |-> [type |-> "tree", tree |-> "", parents |-> <<>>, time |-> 0, entries |-> <<"b1">>],
     c1 |-> [type |-> "commit", tree |-> "t1", parents |-> <<>>, time |-> 1, entries |-> <<>>],
     c2 |-> [type |-> "commit", tree |-> "t1", parents |-> <<"c1">>, time |-> 1, entries |-> <<>>],
     c3 |-> [type |-> "commit", tree |-> "t1", parents |-> <<"c1">>, time |-> 2, entries |-> <<>>],
     c4 |-> [type |-> "commit", tree |-> "t2", parents |-> <<>>, time |-> 3, entries |-> <<>>],
     t2 |-> [type |-> "tree", tree |-> "", parents |-> <<>>, time |-> 0, entries |-> <<"t1">>]]

IndexOf(id) == CHOOSE i \in 1..Len(AllIds) : AllIds[i] = id

\* The content of object id, as one opaque unit above the byte range.
ContentUnit(id) == 255 + IndexOf(id)
IdOfContent(content) == AllIds[content[1] - 255]

\* A loose object file is "ok" (the compressed payload of its object),
\* "corrupt" (unreadable, or not a zlib stream) or "truncated" (a zlib stream
\* whose payload stops inside the header, before the NUL).
FileStates == {"ok", "corrupt", "truncated"}

\* The payload zlib yields for a file: <type> SPACE <size> NUL <content>
Payload(id, st) ==
    IF st = "ok" THEN TypeBytes(Catalog[id].type) \o <<space, 53, nul, ContentUnit(id)>>
    ELSE TypeBytes(Catalog[id].type) \o <<space, 53>>

\* The files of .git/objects a walk meets, in walk order.
RECURSIVE FilesIn(_, _)
FilesIn(d, i) ==
    IF i > Len(AllIds) THEN <<>>
    ELSE LET id == AllIds[i]
         IN  (IF id \in DOMAIN d /\ d[id] # "absent"
              THEN <<[name |-> id, st |-> d[id]]>> ELSE <<>>) \o FilesIn(d, i + 1)

ObjectFiles(d) == FilesIn(d, 1)

\* The hex-named files a walk of the whole location meets: the stray file
\* (under .git/modules, so before .git/objects), then the object files.
LocationFiles(d, s) ==
    (IF s = "absent" THEN <<>> ELSE <<[name |-> StrayId, st |-> s]>>) \o ObjectFiles(d)

\* utils.go getBytes: log.Fatal when the file cannot be read or inflated.
getBytes(f) ==
    IF f.st \in {"corrupt", "plain"} THEN [fatal |-> TRUE, bytes |-> <<>>]
    ELSE [fatal |-> FALSE, bytes |-> Payload(f.name, f.st)]

\* git_tools.go GetObjects, the callback of filepath.WalkDir over the files:
\* log.Fatal on a walk error, NewObject on every hex-named file.
RECURSIVE WalkFiles(_, _)
WalkFiles(files, objects) ==
    IF files = <<>> THEN [outcome |-> "ok", objects |-> objects]
    ELSE LET f == Head(files)
             b == getBytes(f)
             o == NewObject(b.bytes)
         IN  IF b.fatal THEN [outcome |-> "fatal", objects |-> objects]
             ELSE IF o.panic THEN [outcome |-> "panic", objects |-> objects]
             ELSE WalkFiles(Tail(files),
                    [n \in DOMAIN objects \cup {f.name} |->
                        IF n = f.name
                        THEN [Type |-> TypeName(o.Type), Size |-> o.Size, Name |-> f.name,
                              Content |-> o.Content]
                        ELSE objects[n]])

NoObjects == [n \in {} |-> 0]

GetObjects(files, readable) ==
    IF ~readable THEN [outcome |-> "fatal", objects |-> NoObjects]
    ELSE WalkFiles(files, NoObjects)

\* hashdir.Make(gitDir, "md5"): the chained md5 of the contents of the files
\* under .git in walk order, taken as collision free: the sequence of the
\* contents itself.
FileContent(f) ==
    IF f.st \in {"corrupt", "plain"} THEN <<IndexOf(f.name)>> ELSE Payload(f.name, f.st)

hashdirMake(d, s, h, b) ==
    <<[i \in 1..Len(LocationFiles(d, s)) |-> FileContent(LocationFiles(d, s)[i])], h, b>>

(***************************************************************************)
(* Ref resolver                                                            *)
(***************************************************************************)
\* A path is the sequence of its components; filepath.Base is the last one.
Base(path) == path[Len(path)]

\* Repo.Head: "ref: <path>" splits at the colon into type and value, any
\* other content is a detached commit id.
RepoHead(h) ==
    IF h.symbolic THEN [Type |-> "ref", Value |-> h.target]
    ELSE [Type |-> "detached", Value |-> h.target]

\* Repo.Branches with NewBranch: one Branch per file under refs/heads, named
\* by the file's base name.
Branches(hs) == [i \in 1..Len(hs) |-> [Name |-> Base(hs[i].path), Commit |-> hs[i].commit]]

BranchExist(hs, branch) == \E i \in 1..Len(hs) : Branches(hs)[i].Name = branch

\* Repo.GetObject: found only when the name is a key of the map; a path
\* of several components is no object id.
GetObject(objs, value) ==
    IF Len(value) = 1 /\ value[1] \in DOMAIN objs
    THEN [ok |-> TRUE, Name |-> objs[value[1]].Name]
    ELSE [ok |-> FALSE, Name |-> ""]

(***************************************************************************)
(* Graph builder: one object's contribution                                *)
(***************************************************************************)
Range(s) == {s[i] : i \in 1..Len(s)}

\* ParseCommit and ParseTree of an object of the map: the fields of the
\* content the object carries.
ParsedCommit(obj) ==
    LET c == Catalog[IdOfContent(obj.Content)]
    IN  [Tree |-> c.tree, Parents |-> c.parents, CommitTime |-> c.time]

\* ParseTree with "stop < contentLen" as its loop condition: the entry that
\* ends the content is left out.
ParsedTreeDropLast(obj) ==
    LET entries == Catalog[IdOfContent(obj.Content)].entries
    IN  SubSeq(entries, 1, Len(entries) - 1)

ParsedTree(obj) == Catalog[IdOfContent(obj.Content)].entries

\* All orders of a finite set
RECURSIVE Perms(_)
Perms(S) ==
    IF S = {} THEN {<<>>}
    ELSE UNION {{<<x>> \o p : p \in Perms(S \ {x})} : x \in S}

\* GetCommits without its sort.Slice: the commits in the order the map is
\* ranged over.
GetCommitsUnsorted(objs) ==
    LET cs == {n \in DOMAIN objs : objs[n].Type = "commit"}
    IN  {[i \in 1..Len(p) |-> objs[p[i]]] : p \in Perms(cs)}

\* Repo.GetCommits(true): the commits of the map in an order sort.Slice can
\* leave them in: ascending by commit time, commits of equal time in any
\* order (the map is ranged over in random order and the sort is not stable).
GetCommits(objs) ==
    LET cs == {n \in DOMAIN objs : objs[n].Type = "commit"}
        sorted == {p \in Perms(cs) :
            \A i, j \in 1..Len(p) :
                i < j => ParsedCommit(objs[p[i]]).CommitTime <= ParsedCommit(objs[p[j]]).CommitTime}
    IN  {[i \in 1..Len(p) |-> objs[p[i]]] : p \in sorted}

\* Repo.FindFirstInstanceOfBlob: the first commit, in the given order, whose
\* tree lists the blob. ParseTree dereferences r.Objects[tree], nil when the
\* tree is no key of the map; ParseBlob dereferences r.Objects[name].
RECURSIVE FindFirstInstanceOfBlob(_, _, _)
FindFirstInstanceOfBlob(objs, name, cs) ==
    IF cs = <<>> THEN [panic |-> FALSE, found |-> FALSE, Name |-> ""]
    ELSE LET c == Head(cs)
             tree == ParsedCommit(c).Tree
         IN  IF tree \notin DOMAIN objs THEN [panic |-> TRUE, found |-> FALSE, Name |-> ""]
             ELSE IF name \in Range(ParsedTree(objs[tree]))
             THEN IF name \in DOMAIN objs
                  THEN [panic |-> FALSE, found |-> TRUE, Name |-> c.Name]
                  ELSE [panic |-> TRUE, found |-> FALSE, Name |-> ""]
             ELSE FindFirstInstanceOfBlob(objs, name, Tail(cs))

\* Repo.GetTreeCommit: r.Objects[name] is dereferenced (obj.Type), then the
\* first commit whose tree is this object.
RECURSIVE FirstCommitOfTree(_, _)
FirstCommitOfTree(name, cs) ==
    IF cs = <<>> THEN ""
    ELSE IF ParsedCommit(Head(cs)).Tree = name THEN Head(cs).Name
    ELSE FirstCommitOfTree(name, Tail(cs))

\* GetTreeCommit without "c.Tree == obj.Name": the first commit whatever
\* its tree.
GetTreeCommitAnyCommit(objs, name, cs) ==
    IF name \notin DOMAIN objs THEN [panic |-> TRUE, Name |-> ""]
    ELSE IF objs[name].Type = "tree"
    THEN [panic |-> FALSE, Name |-> IF cs = <<>> THEN "" ELSE Head(cs).Name]
    ELSE [panic |-> FALSE, Name |-> ""]

GetTreeCommit(objs, name, cs) ==
    IF name \notin DOMAIN objs THEN [panic |-> TRUE, Name |-> ""]
    ELSE IF objs[name].Type = "tree"
    THEN [panic |-> FALSE, Name |-> FirstCommitOfTree(objs[name].Name, cs)]
    ELSE [panic |-> FALSE, Name |-> ""]

Node(obj, aux) == [name |-> obj.Name, type |-> obj.Type, object |-> obj.Content, aux |-> aux]

Edge(src, dest) == [Src |-> src, Dest |-> dest]

\* getNodesAndEdges with the parent edges turned round (Src: p, Dest: obj.Name)
getNodesAndEdgesParentToChild(objs, cs, obj) ==
    CASE obj.Type = "commit" ->
            LET commit == ParsedCommit(obj)
            IN  [panic |-> FALSE,
                 Edges |-> [i \in 1..Len(commit.Parents) |-> Edge(commit.Parents[i], obj.Name)]
                           \o <<Edge(obj.Name, commit.Tree)>>,
                 Nodes |-> <<Node(obj, "")>>]
      [] obj.Type = "tree" ->
            LET entries == ParsedTree(obj)
                tc == GetTreeCommit(objs, obj.Name, cs)
            IN  [panic |-> tc.panic,
                 Edges |-> [i \in 1..Len(entries) |-> Edge(obj.Name, entries[i])],
                 Nodes |-> <<Node(obj, tc.Name)>>]
      [] obj.Type = "blob" ->
            LET c == FindFirstInstanceOfBlob(objs, obj.Name, cs)
            IN  [panic |-> c.panic,
                 Edges |-> <<>>,
                 Nodes |-> <<Node(obj, IF c.found THEN c.Name ELSE "")>>]
      [] OTHER ->
            [panic |-> FALSE, Edges |-> <<>>, Nodes |-> <<Node(obj, "")>>]

\* ToJsonGraph's getNodesAndEdges(input): obj and cs (Commits) are the input's,
\* objs is r.Objects as the task reads it.
getNodesAndEdges(objs, cs, obj) ==
    CASE obj.Type = "commit" ->
            LET commit == ParsedCommit(obj)
            IN  [panic |-> FALSE,
                 Edges |-> [i \in 1..Len(commit.Parents) |-> Edge(obj.Name, commit.Parents[i])]
                           \o <<Edge(obj.Name, commit.Tree)>>,
                 Nodes |-> <<Node(obj, "")>>]
      [] obj.Type = "tree" ->
            LET entries == ParsedTree(obj)
                tc == GetTreeCommit(objs, obj.Name, cs)
            IN  [panic |-> tc.panic,
                 Edges |-> [i \in 1..Len(entries) |-> Edge(obj.Name, entries[i])],
                 Nodes |-> <<Node(obj, tc.Name)>>]
      [] obj.Type = "blob" ->
            LET c == FindFirstInstanceOfBlob(objs, obj.Name, cs)
            IN  [panic |-> c.panic,
                 Edges |-> <<>>,
                 Nodes |-> <<Node(obj, IF c.found THEN c.Name ELSE "")>>]
      [] OTHER ->
            [panic |-> FALSE, Edges |-> <<>>, Nodes |-> <<Node(obj, "")>>]

\* ToJsonGraph, "add refs/branches": the HEAD node, its edge to the object
\* HEAD names or else to the branch of that name when there is one, and a
\* node and an edge per branch.
RefNode(name) == [name |-> name, type |-> "ref", object |-> <<>>, aux |-> ""]

RefsSection(objs, h, hs) ==
    LET hd == RepoHead(h)
        headObj == GetObject(objs, hd.Value)
        bs == Branches(hs)
    IN  [Nodes |-> <<RefNode("HEAD")>> \o [i \in 1..Len(bs) |-> RefNode(bs[i].Name)],
         Edges |-> (IF headObj.ok THEN <<Edge("HEAD", headObj.Name)>>
                    ELSE IF BranchExist(hs, Base(hd.Value)) THEN <<Edge("HEAD", Base(hd.Value))>>
                    ELSE <<>>)
                   \o [i \in 1..Len(bs) |-> Edge(bs[i].Name, bs[i].Commit)]]

(***************************************************************************)
(* Spec: a Repo shared by the callers of the delivery layer, next to a     *)
(* process that mutates the store                                          *)
(***************************************************************************)
Procs == {1, 2}

NoSnap == [commits |-> <<>>, inputs |-> NoObjects, todo |-> {}, nodes |-> <<>>,
           edges |-> <<>>, seen |-> {}]

Running == status = "running"

\* ---- the store's writer (git, or whoever changes the directory)
Since(kind) ==
    IF kind = "add" /\ hist.since \in {"none", "add"} THEN "add" ELSE "other"

\* A new loose object file appears, whole, corrupt or not yet fully written.
WriteObject(id, st) ==
    /\ Running /\ mutations < limit
    /\ disk[id] = "absent"
    /\ disk' = [disk EXCEPT ![id] = st]
    /\ mutations' = mutations + 1
    /\ hist' = [hist EXCEPT !.since = Since("add")]
    /\ UNCHANGED <<decodeVars, connVars, graphVars, stray, rootOK, head, heads, limit, repoVars, callerVars>>

\* A loose object file is removed (gc, prune).
RemoveObject(id) ==
    /\ Running /\ mutations < limit
    /\ disk[id] # "absent"
    /\ disk' = [disk EXCEPT ![id] = "absent"]
    /\ mutations' = mutations + 1
    /\ hist' = [hist EXCEPT !.since = Since("remove")]
    /\ UNCHANGED <<decodeVars, connVars, graphVars, stray, rootOK, head, heads, limit, repoVars, callerVars>>

\* The directories become unreadable, or readable again.
SetReadable ==
    /\ Running /\ mutations < limit
    /\ rootOK' = ~rootOK
    /\ mutations' = mutations + 1
    /\ hist' = [hist EXCEPT !.since = Since("chmod")]
    /\ UNCHANGED <<decodeVars, connVars, graphVars, disk, stray, head, heads, limit, repoVars, callerVars>>

\* ---- NewRepo
\* objects := GetObjects(gitDir(location) + "/objects")
OpenScan ==
    /\ Running /\ openPc = "scan"
    /\ LET r == GetObjects(ObjectFiles(disk), rootOK)
       IN  /\ status' = IF r.outcome = "ok" THEN status ELSE r.outcome
           /\ openObjects' = r.objects
           /\ openPc' = IF r.outcome = "ok" THEN "hash" ELSE openPc
           /\ hist' = [hist EXCEPT !.fault = IF r.outcome = "ok" THEN @ ELSE "open",
                                   !.openDisk = disk]
    /\ UNCHANGED <<decodeVars, connVars, graphVars, storeVars, Objects, Checksum, callerVars>>

\* dirHash, err := hashdir.Make(...); log.Fatal(err); return &Repo{...}
OpenHash ==
    /\ Running /\ openPc = "hash"
    /\ IF rootOK
       THEN /\ Objects' = openObjects
            /\ Checksum' = hashdirMake(disk, stray, head, heads)
            /\ openPc' = "done"
            /\ hist' = [hist EXCEPT !.since = "none", !.openKeys = DOMAIN openObjects]
            /\ UNCHANGED status
       ELSE /\ status' = "fatal"
            /\ UNCHANGED <<Objects, Checksum, openPc, hist>>
    /\ UNCHANGED <<decodeVars, connVars, graphVars, storeVars, openObjects, callerVars>>

\* ---- Repo.Changed
\* dirHash, err := hashdir.Make(gitDir(r.Location), "md5"); log.Fatal(err)
ChangedHash(p) ==
    /\ Running /\ openPc = "done" /\ pc[p] = "idle"
    /\ IF rootOK
       THEN /\ dirHash' = [dirHash EXCEPT ![p] = hashdirMake(disk, stray, head, heads)]
            /\ pc' = [pc EXCEPT ![p] = "changed_cmp"]
            /\ hist' = [hist EXCEPT !.polled = hist.since, !.since = "none"]
            /\ UNCHANGED status
       ELSE /\ status' = "fatal"
            /\ UNCHANGED <<dirHash, pc, hist>>
    /\ UNCHANGED <<decodeVars, connVars, graphVars, storeVars, Objects, Checksum, openPc, openObjects,
                   callers, ret, scanned, snap>>

\* if r.Checksum != dirHash { ... } return false
ChangedCompare(p) ==
    /\ Running /\ pc[p] = "changed_cmp"
    /\ IF Checksum # dirHash[p]
       THEN /\ pc' = [pc EXCEPT ![p] = "changed_set"]
            /\ UNCHANGED ret
       ELSE /\ pc' = [pc EXCEPT ![p] = "idle"]
            /\ ret' = [ret EXCEPT ![p] = "false"]
    /\ UNCHANGED <<decodeVars, connVars, graphVars, storeVars, repoVars, callers, dirHash, scanned, snap, hist>>

\* Changed without "r.Checksum = dirHash"
ChangedSetNoStore(p) ==
    /\ Running /\ pc[p] = "changed_set"
    /\ ret' = [ret EXCEPT ![p] = "true"]
    /\ pc' = [pc EXCEPT ![p] = "refresh_scan"]
    /\ hist' = [hist EXCEPT !.trues = IF @ < MaxMutations + 2 THEN @ + 1 ELSE @]
    /\ UNCHANGED <<decodeVars, connVars, graphVars, storeVars, status, Objects, Checksum, openPc,
                   openObjects, callers, dirHash, scanned, snap>>

\* r.Checksum = dirHash; return true. The caller goes on to refresh.
ChangedSet(p) ==
    /\ Running /\ pc[p] = "changed_set"
    /\ Checksum' = dirHash[p]
    /\ ret' = [ret EXCEPT ![p] = "true"]
    /\ pc' = [pc EXCEPT ![p] = "refresh_scan"]
    /\ hist' = [hist EXCEPT !.trues = IF @ < MaxMutations + 2 THEN @ + 1 ELSE @]
    /\ UNCHANGED <<decodeVars, connVars, graphVars, storeVars, status, Objects, openPc, openObjects,
                   callers, dirHash, scanned, snap>>

\* ---- Repo.refresh
\* objects := GetObjects(r.Location): the walk starts at the location, not
\* at its .git/objects.
RefreshScan(p) ==
    /\ Running /\ pc[p] = "refresh_scan"
    /\ LET r == GetObjects(LocationFiles(disk, stray), rootOK)
       IN  /\ status' = IF r.outcome = "ok" THEN status ELSE r.outcome
           /\ scanned' = [scanned EXCEPT ![p] = r.objects]
           /\ pc' = [pc EXCEPT ![p] = IF r.outcome = "ok" THEN "refresh_set" ELSE @]
           /\ hist' = [hist EXCEPT !.fault = IF r.outcome = "ok" THEN @ ELSE "refresh",
                                   !.scanDisk = disk]
    /\ UNCHANGED <<decodeVars, connVars, graphVars, storeVars, Objects, Checksum, openPc, openObjects,
                   callers, dirHash, ret, snap>>

\* r.Objects = objects. The caller goes on to the snapshot.
RefreshSet(p) ==
    /\ Running /\ pc[p] = "refresh_set"
    /\ Objects' = scanned[p]
    /\ pc' = [pc EXCEPT ![p] = "snap_commits"]
    /\ hist' = [hist EXCEPT !.refreshed = TRUE, !.refreshDisk = hist.scanDisk]
    /\ UNCHANGED <<decodeVars, connVars, graphVars, storeVars, status, Checksum, openPc, openObjects,
                   callers, dirHash, ret, scanned, snap>>

\* ---- Repo.ToJsonGraph
\* A client's need-objects message asks for a snapshot without a poll.
NeedObjects(p) ==
    /\ Running /\ openPc = "done" /\ pc[p] = "idle"
    /\ pc' = [pc EXCEPT ![p] = "snap_commits"]
    /\ UNCHANGED <<decodeVars, connVars, graphVars, storeVars, repoVars, callers, dirHash, ret, scanned, snap, hist>>

\* commits := r.GetCommits(true)
SnapCommits(p) ==
    /\ Running /\ pc[p] = "snap_commits"
    /\ \E cs \in GetCommits(Objects) :
          snap' = [snap EXCEPT ![p] = [NoSnap EXCEPT !.commits = cs, !.seen = {Objects}]]
    /\ pc' = [pc EXCEPT ![p] = "snap_inputs"]
    /\ UNCHANGED <<decodeVars, connVars, graphVars, storeVars, repoVars, callers, dirHash, ret, scanned, hist>>

\* for _, obj := range r.Objects { inputs = append(inputs, ...) }
SnapInputs(p) ==
    /\ Running /\ pc[p] = "snap_inputs"
    /\ snap' = [snap EXCEPT ![p].inputs = Objects, ![p].todo = DOMAIN Objects,
                            ![p].seen = @ \cup {Objects}]
    /\ pc' = [pc EXCEPT ![p] = "snap_tasks"]
    /\ UNCHANGED <<decodeVars, connVars, graphVars, storeVars, repoVars, callers, dirHash, ret, scanned, hist>>

\* One task of ParallelWork and the fan-in of its result.
SnapTask(p, n) ==
    /\ Running /\ pc[p] = "snap_tasks" /\ n \in snap[p].todo
    /\ LET d == getNodesAndEdges(Objects, snap[p].commits, snap[p].inputs[n])
       IN  IF d.panic
           THEN /\ status' = "panic"
                /\ hist' = [hist EXCEPT !.fault = "snapshot"]
                /\ UNCHANGED snap
           ELSE /\ snap' = [snap EXCEPT ![p].todo = @ \ {n},
                                        ![p].edges = @ \o d.Edges,
                                        ![p].nodes = @ \o d.Nodes,
                                        ![p].seen = @ \cup {Objects}]
                /\ UNCHANGED <<status, hist>>
    /\ UNCHANGED <<decodeVars, connVars, graphVars, storeVars, Objects, Checksum, openPc, openObjects,
                   callers, pc, dirHash, ret, scanned>>

\* The refs section and the return of the document.
SnapRefs(p) ==
    /\ Running /\ pc[p] = "snap_tasks" /\ snap[p].todo = {}
    /\ LET r == RefsSection(Objects, head, heads)
       IN  snap' = [snap EXCEPT ![p].edges = @ \o r.Edges, ![p].nodes = @ \o r.Nodes,
                                ![p].seen = @ \cup {Objects}]
    /\ pc' = [pc EXCEPT ![p] = "snap_done"]
    /\ UNCHANGED <<decodeVars, connVars, graphVars, storeVars, repoVars, callers, dirHash, ret, scanned, hist>>

\* The caller has sent the document and waits for the next tick or message.
SnapReturn(p) ==
    /\ Running /\ pc[p] = "snap_done"
    /\ pc' = [pc EXCEPT ![p] = "idle"]
    /\ snap' = [snap EXCEPT ![p] = NoSnap]
    /\ UNCHANGED <<decodeVars, connVars, graphVars, storeVars, repoVars, callers, dirHash, ret, scanned, hist>>

\* ---- the specification
NoHist == [since |-> "none", polled |-> "none", trues |-> 0, fault |-> "none",
           openKeys |-> {}, openDisk |-> <<>>, scanDisk |-> <<>>,
           refreshed |-> FALSE, refreshDisk |-> <<>>]

NoDisk == [id \in ObjectIds |-> "absent"]

\* The stores the process is started on: empty, a lone tree, one commit
\* with its tree and blob.
InitDisks ==
    {NoDisk,
     [NoDisk EXCEPT !["t1"] = "ok"],
     [NoDisk EXCEPT !["b1"] = "ok", !["t1"] = "ok", !["c1"] = "ok"]}

NotCalled == [called |-> FALSE, result |-> [panic |-> FALSE]]

NothingWritten == [kind |-> "none"]

InitDecodeIdle == data = <<>> /\ decoded = NotCalled /\ written = NothingWritten

\* No connection was made
InitConnIdle ==
    /\ numFiles = 0
    /\ conn = "none"
    /\ rd = "none"
    /\ wr = "none"
    /\ tickers = "none"

Workers == 1..NumWorkers

NoData == [panic |-> FALSE, Edges |-> <<>>, Nodes |-> <<>>]

InitGraphIdle ==
    /\ gpc = "idle"
    /\ commits = <<>>
    /\ inputs = <<>>
    /\ tasks = [buf |-> <<>>, closed |-> FALSE]
    /\ results = [closed |-> FALSE]
    /\ wg = 0
    /\ wpc = [w \in Workers |-> "none"]
    /\ wval = [w \in Workers |-> NoData]
    /\ nodes = <<>>
    /\ edges = <<>>
    /\ docs = <<>>

InitRepo(cs, disks, strays, n) ==
    /\ InitConnIdle
    /\ InitDecodeIdle
    /\ InitGraphIdle
    /\ disk \in disks
    /\ stray \in strays
    /\ limit = n
    /\ rootOK = TRUE
    /\ head = [symbolic |-> TRUE, target |-> <<"refs", "heads", "main">>]
    /\ heads = IF disk["c1"] = "ok" THEN <<[path |-> <<"main">>, commit |-> "c1"]>> ELSE <<>>
    /\ mutations = 0
    /\ status = "running"
    /\ Objects = NoObjects
    /\ Checksum = <<>>
    /\ openPc = "scan"
    /\ openObjects = NoObjects
    /\ callers = cs
    /\ pc = [p \in Procs |-> "idle"]
    /\ dirHash = [p \in Procs |-> <<>>]
    /\ ret = [p \in Procs |-> "none"]
    /\ scanned = [p \in Procs |-> NoObjects]
    /\ snap = [p \in Procs |-> NoSnap]
    /\ hist = NoHist

\* Two callers on a store that holds a lone tree, followed for one mutation.
Init == InitRepo(Procs, {[NoDisk EXCEPT !["t1"] = "ok"]}, {"absent"}, MaxRaceMutations)

\* One caller on any of the initial stores.
InitSingle == InitRepo({1}, InitDisks, {"absent", "plain", "ok"}, MaxMutations)

StoreNext ==
    \/ \E id \in ObjectIds, st \in FileStates : WriteObject(id, st)
    \/ \E id \in ObjectIds : RemoveObject(id)
    \/ SetReadable

RepoNext ==
    \/ OpenScan
    \/ OpenHash
    \/ \E p \in callers : ChangedHash(p)
    \/ \E p \in callers : ChangedCompare(p)
    \/ \E p \in callers : ChangedSet(p)
    \/ \E p \in callers : RefreshScan(p)
    \/ \E p \in callers : RefreshSet(p)
    \/ \E p \in callers : NeedObjects(p)
    \/ \E p \in callers : SnapCommits(p)
    \/ \E p \in callers : SnapInputs(p)
    \/ \E p \in callers, n \in ObjectIds \cup {StrayId} : SnapTask(p, n)
    \/ \E p \in callers : SnapRefs(p)
    \/ \E p \in callers : SnapReturn(p)

Next == StoreNext \/ RepoNext

Spec == Init /\ [][Next]_vars

SpecSingle == InitSingle /\ [][Next]_vars

(***************************************************************************)
(* SpecDecode: NewObject on every payload up to MaxLen bytes               *)
(***************************************************************************)
\* SPACE, NUL, 'b' and '5'
DecodeBytes == {space, nul, 98, 53}

BytesUpTo(n) == UNION {[1..k -> DecodeBytes] : k \in 0..n}

\* "blob 5", NUL, "hello"; and "blob 5", NUL, "he l", NUL
PayloadHello == <<98, 108, 111, 98, 32, 53, 0, 104, 101, 108, 108, 111>>
PayloadSpaceNul == <<98, 108, 111, 98, 32, 53, 0, 104, 101, 32, 108, 0>>

DecodeInputs == BytesUpTo(MaxLen) \cup {PayloadHello, PayloadSpaceNul}

InitStoreIdle ==
    /\ disk = NoDisk
    /\ stray = "absent"
    /\ rootOK = TRUE
    /\ head = [symbolic |-> TRUE, target |-> <<"refs", "heads", "main">>]
    /\ heads = <<>>
    /\ mutations = 0
    /\ limit = 0

InitRepoIdle ==
    /\ status = "running"
    /\ Objects = NoObjects
    /\ Checksum = <<>>
    /\ openPc = "done"
    /\ openObjects = NoObjects

InitCallersIdle ==
    /\ callers = {}
    /\ pc = [p \in Procs |-> "idle"]
    /\ dirHash = [p \in Procs |-> <<>>]
    /\ ret = [p \in Procs |-> "none"]
    /\ scanned = [p \in Procs |-> NoObjects]
    /\ snap = [p \in Procs |-> NoSnap]

InitDecode ==
    /\ InitConnIdle
    /\ data \in DecodeInputs
    /\ decoded = NotCalled
    /\ written = NothingWritten
    /\ InitStoreIdle /\ InitRepoIdle /\ InitCallersIdle /\ InitGraphIdle
    /\ hist = NoHist

\* obj := NewObject(path), past getBytes
Decode ==
    /\ ~decoded.called
    /\ decoded' = [called |-> TRUE, result |-> NewObject(data)]
    /\ UNCHANGED <<data, written, connVars, storeVars, repoVars, callerVars, graphVars, hist>>

SpecDecode == InitDecode /\ [][Decode]_vars

(***************************************************************************)
(* SpecGraph: ToJsonGraph on a Repo that nothing refreshes, with the       *)
(* goroutines and channels of ParallelWork                                 *)
(***************************************************************************)
GraphIds == {"b1", "c1", "c2", "c3", "t1", "c4", "t2"}

\* A commit whose tree holds its blob in a subtree only.
NestedIds == {"b1", "c4", "t1", "t2"}

\* The object maps a scan can build from at most MaxObjects loose objects,
\* and the map of the nested commit.
GraphMaps ==
    {GetObjects(ObjectFiles([id \in S |-> "ok"]), TRUE).objects :
        S \in {T \in SUBSET GraphIds : Cardinality(T) <= MaxObjects} \cup {NestedIds}}

Bag(s) == [x \in Range(s) |-> Cardinality({i \in 1..Len(s) : s[i] = x})]

\* commits := r.GetCommits(true); the inputs in the order the map is ranged
\* over; ParallelWork up to the start of its workers (wg.Add(1); go ...).
GraphStart ==
    /\ Running /\ gpc = "start"
    /\ \E cs \in GetCommits(Objects) : commits' = cs
    /\ \E order \in Perms(DOMAIN Objects) : inputs' = [i \in 1..Len(order) |-> Objects[order[i]]]
    /\ tasks' = [buf |-> <<>>, closed |-> FALSE]
    /\ results' = [closed |-> FALSE]
    /\ wg' = NumWorkers
    /\ wpc' = [w \in Workers |-> "recv"]
    /\ nodes' = <<>>
    /\ edges' = <<>>
    /\ gpc' = "push"
    /\ UNCHANGED <<decodeVars, connVars, storeVars, repoVars, callerVars, wval, docs, hist>>

\* tasks <- d: the buffer holds len(data), the send never blocks
PushTask ==
    /\ Running /\ gpc = "push" /\ inputs # <<>>
    /\ tasks' = [tasks EXCEPT !.buf = Append(@, Head(inputs))]
    /\ inputs' = Tail(inputs)
    /\ UNCHANGED <<decodeVars, connVars, storeVars, repoVars, callerVars, gpc, commits, results, wg, wpc,
                   wval, nodes, edges, docs, hist>>

\* close(tasks); go func() { wg.Wait(); close(results) }; return results
CloseTasks ==
    /\ Running /\ gpc = "push" /\ inputs = <<>>
    /\ tasks' = [tasks EXCEPT !.closed = TRUE]
    /\ gpc' = "range"
    /\ UNCHANGED <<decodeVars, connVars, storeVars, repoVars, callerVars, commits, inputs, results, wg, wpc,
                   wval, nodes, edges, docs, hist>>

\* worker: t := <-tasks; task(t)
WorkerTask(w) ==
    /\ Running /\ wpc[w] = "recv" /\ tasks.buf # <<>>
    /\ tasks' = [tasks EXCEPT !.buf = Tail(@)]
    /\ LET d == getNodesAndEdges(Objects, commits, Head(tasks.buf))
       IN  IF d.panic
           THEN /\ status' = "panic"
                /\ UNCHANGED <<wpc, wval>>
           ELSE /\ wval' = [wval EXCEPT ![w] = d]
                /\ wpc' = [wpc EXCEPT ![w] = "send"]
                /\ UNCHANGED status
    /\ UNCHANGED <<decodeVars, connVars, storeVars, Objects, Checksum, openPc, openObjects, callerVars,
                   gpc, commits, inputs, results, wg, nodes, edges, docs, hist>>

\* The fan-in with "nodes = d.Nodes" in place of the append.
DeliverOverwrite(w) ==
    /\ Running /\ wpc[w] = "send" /\ gpc = "range" /\ ~results.closed
    /\ edges' = edges \o wval[w].Edges
    /\ nodes' = wval[w].Nodes
    /\ wpc' = [wpc EXCEPT ![w] = "recv"]
    /\ wval' = [wval EXCEPT ![w] = NoData]
    /\ UNCHANGED <<decodeVars, connVars, storeVars, repoVars, callerVars, gpc, commits, inputs, tasks,
                   results, wg, docs, hist>>

\* worker: results <- ..., received by "for d := range ParallelWork(...)":
\* edges = append(edges, d.Edges...); nodes = append(nodes, d.Nodes...)
Deliver(w) ==
    /\ Running /\ wpc[w] = "send" /\ gpc = "range" /\ ~results.closed
    /\ edges' = edges \o wval[w].Edges
    /\ nodes' = nodes \o wval[w].Nodes
    /\ wpc' = [wpc EXCEPT ![w] = "recv"]
    /\ wval' = [wval EXCEPT ![w] = NoData]
    /\ UNCHANGED <<decodeVars, connVars, storeVars, repoVars, callerVars, gpc, commits, inputs, tasks,
                   results, wg, docs, hist>>

\* worker: the range over tasks ends (closed and drained); wg.Done()
WorkerDone(w) ==
    /\ Running /\ wpc[w] = "recv" /\ tasks.buf = <<>> /\ tasks.closed
    /\ wpc' = [wpc EXCEPT ![w] = "done"]
    /\ wg' = wg - 1
    /\ UNCHANGED <<decodeVars, connVars, storeVars, repoVars, callerVars, gpc, commits, inputs, tasks,
                   results, wval, nodes, edges, docs, hist>>

\* wg.Wait(); close(results)
CloseResults ==
    /\ Running /\ gpc = "range" /\ wg = 0 /\ ~results.closed
    /\ results' = [closed |-> TRUE]
    /\ UNCHANGED <<decodeVars, connVars, storeVars, repoVars, callerVars, gpc, commits, inputs, tasks,
                   wg, wpc, wval, nodes, edges, docs, hist>>

\* The range over results ends; the refs section; the document is returned.
GraphReturn ==
    /\ Running /\ gpc = "range" /\ results.closed
    /\ LET r == RefsSection(Objects, head, heads)
       IN  /\ edges' = edges \o r.Edges
           /\ nodes' = nodes \o r.Nodes
           /\ docs' = Append(docs, [nodes |-> Bag(nodes \o r.Nodes), edges |-> Bag(edges \o r.Edges)])
    /\ gpc' = "done"
    /\ UNCHANGED <<decodeVars, connVars, storeVars, repoVars, callerVars, commits, inputs, tasks, results,
                   wg, wpc, wval, hist>>

\* ToJsonGraph is called again on the same Repo.
GraphAgain ==
    /\ Running /\ gpc = "done" /\ Len(docs) < 2
    /\ gpc' = "start"
    /\ UNCHANGED <<decodeVars, connVars, storeVars, repoVars, callerVars, commits, inputs, tasks, results,
                   wg, wpc, wval, nodes, edges, docs, hist>>

\* The layouts of refs/heads: no branch yet, the branch main, and main next
\* to the branch feature/main kept in a directory of refs/heads. InitGraph
\* keeps the stores whose refs name commits of the map.
GraphHeads ==
    {<<>>,
     <<[path |-> <<"main">>, commit |-> "c1"]>>,
     <<[path |-> <<"feature", "main">>, commit |-> "c1"], [path |-> <<"main">>, commit |-> "c1"]>>}

InitGraph ==
    /\ InitConnIdle
    /\ InitDecodeIdle /\ InitCallersIdle
    /\ disk = NoDisk /\ stray = "absent" /\ rootOK = TRUE /\ mutations = 0 /\ limit = 0
    /\ head \in {[symbolic |-> TRUE, target |-> <<"refs", "heads", "main">>],
                 [symbolic |-> FALSE, target |-> <<"c1">>]}
    /\ heads \in GraphHeads
    /\ status = "running"
    /\ Objects \in GraphMaps
    /\ head.symbolic \/ Base(head.target) \in DOMAIN Objects
    /\ \A k \in 1..Len(heads) : heads[k].commit \in DOMAIN Objects
    /\ Checksum = <<>>
    /\ openPc = "done"
    /\ openObjects = NoObjects
    /\ gpc = "start"
    /\ commits = <<>>
    /\ inputs = <<>>
    /\ tasks = [buf |-> <<>>, closed |-> FALSE]
    /\ results = [closed |-> FALSE]
    /\ wg = 0
    /\ wpc = [w \in Workers |-> "none"]
    /\ wval = [w \in Workers |-> NoData]
    /\ nodes = <<>>
    /\ edges = <<>>
    /\ docs = <<>>
    /\ hist = NoHist

GraphNext ==
    \/ GraphStart
    \/ PushTask
    \/ CloseTasks
    \/ \E w \in Workers : WorkerTask(w)
    \/ \E w \in Workers : Deliver(w)
    \/ \E w \in Workers : WorkerDone(w)
    \/ CloseResults
    \/ GraphReturn
    \/ GraphAgain

SpecGraph == InitGraph /\ [][GraphNext]_vars

(***************************************************************************)
(* The documents one version of the object map yields                      *)
(***************************************************************************)
RECURSIVE Contributions(_, _, _)
Contributions(objs, cs, names) ==
    IF names = {} THEN NoData
    ELSE LET n == CHOOSE x \in names : TRUE
             d == getNodesAndEdges(objs, cs, objs[n])
             rest == Contributions(objs, cs, names \ {n})
         IN  [panic |-> d.panic \/ rest.panic,
              Edges |-> d.Edges \o rest.Edges,
              Nodes |-> d.Nodes \o rest.Nodes]

\* The document whose every part comes from the map objs with the commits
\* in the order cs: the contribution of each object once, and the refs.
FullDoc(objs, cs, h, hs) ==
    LET c == Contributions(objs, cs, DOMAIN objs)
        r == RefsSection(objs, h, hs)
    IN  [nodes |-> Bag(c.Nodes \o r.Nodes), edges |-> Bag(c.Edges \o r.Edges)]

SingleVersionDocs(objs) ==
    {FullDoc(objs, cs, head, heads) :
        cs \in {x \in GetCommits(objs) : ~Contributions(objs, x, DOMAIN objs).panic}}

DistinctCommitTimes(objs) ==
    \A m, n \in DOMAIN objs :
        (m # n /\ objs[m].Type = "commit" /\ objs[n].Type = "commit")
            => ParsedCommit(objs[m]).CommitTime # ParsedCommit(objs[n]).CommitTime

(***************************************************************************)
(* Claims                                                                  *)
(***************************************************************************)
\* C1 (SpecSingle): with one caller, a Changed() call returns false when the
\* store was not mutated since the previous call's fingerprint (or since
\* open's), and true when loose object files, and nothing else, were added
\* since then; so it is true once after an addition and false again until
\* the next mutation.
C1_ChangedOncePerMutation ==
    \A p \in callers :
        (pc[p] \notin {"changed_cmp", "changed_set"} /\ ret[p] # "none") =>
            /\ hist.polled = "none" => ret[p] = "false"
            /\ hist.polled = "add" => ret[p] = "true"

\* A call returned true after an addition, and the call after it false.
C1_Witness ==
    /\ Running /\ pc[1] = "idle" /\ ret[1] = "false"
    /\ hist.polled = "none" /\ hist.trues >= 1 /\ mutations >= 1

\* C2 (Spec): concurrent Changed() calls compare and update the stored
\* fingerprint atomically: no more calls return true than the store had
\* mutations.
C2_OneTruePerMutation == hist.trues <= mutations

\* C3 (Spec): a snapshot that runs next to refresh() derives its whole
\* document from one version of the object map, one of those r.Objects
\* held while the snapshot ran.
C3_SnapshotOfOneVersion ==
    \A p \in callers :
        pc[p] = "snap_done" =>
            \E m \in snap[p].seen :
                [nodes |-> Bag(snap[p].nodes), edges |-> Bag(snap[p].edges)]
                    \in SingleVersionDocs(m)

\* C4 (Spec): once the store has stopped changing and the callers have
\* polled it to rest (every caller idle, the stored fingerprint that of the
\* store, so that every later Changed() is false), the object map is the
\* full scan of the store. It would have to be, for the map to equal the
\* scan of the final store eventually.
C4_AtRestObjectsAreTheScan ==
    (/\ Running /\ openPc = "done" /\ rootOK /\ stray = "absent"
     /\ \A p \in callers : pc[p] = "idle"
     /\ Checksum = hashdirMake(disk, stray, head, heads)
     /\ GetObjects(ObjectFiles(disk), TRUE).outcome = "ok")
        => Objects = GetObjects(ObjectFiles(disk), TRUE).objects

\* C5 (SpecSingle): when refresh scanned the store as open had scanned it,
\* the keys of Repo.Objects after refresh are the keys open produced.
C5_RefreshKeysAsOpen ==
    (Running /\ hist.refreshed /\ hist.refreshDisk = hist.openDisk)
        => DOMAIN Objects = hist.openKeys

\* C6 (SpecSingle): a refresh that finds the store unreadable ends without
\* ending the process and leaves Objects and Checksum as they were.
C6_UnreadableStoreKeepsRepo ==
    [][(/\ pc[1] = "refresh_scan" /\ ~rootOK
        /\ (pc'[1] # pc[1] \/ status' # status))
            => (status' = "running" /\ Objects' = Objects /\ Checksum' = Checksum)]_vars

\* C7 (SpecSingle): a scan (open's or refresh's) that meets a loose object
\* file it cannot read or inflate skips it and goes on: the process keeps
\* running and every readable object is in the scanned map.
CorruptOnly ==
    /\ rootOK /\ stray = "absent"
    /\ \E id \in ObjectIds : disk[id] = "corrupt"
    /\ \A id \in ObjectIds : disk[id] # "truncated"

C7_CorruptObjectSkipped ==
    [][/\ (/\ pc[1] = "refresh_scan" /\ CorruptOnly
           /\ (pc'[1] # pc[1] \/ status' # status))
            => (/\ status' = "running"
                /\ \A id \in ObjectIds : disk[id] = "ok" => id \in DOMAIN scanned'[1])
       /\ (/\ openPc = "scan" /\ CorruptOnly
           /\ (openPc' # openPc \/ status' # status))
            => (/\ status' = "running"
                /\ \A id \in ObjectIds : disk[id] = "ok" => id \in DOMAIN openObjects')]_vars

\* C8 (SpecDecode): decoding a payload with no SPACE, or with no NUL after
\* its first SPACE, does not panic and tags the object as of no known kind.
MalformedHeader(bytes) ==
    \/ findFirstMatch(space, 0, bytes) = NotFound
    \/ findFirstMatch(nul, findFirstMatch(space, 0, bytes) + 1, bytes) = NotFound

C8_MalformedHeaderIsOther ==
    (decoded.called /\ MalformedHeader(data))
        => (~decoded.result.panic /\ TypeName(decoded.result.Type) = "other")

\* C9 (SpecGraph): for every object map, worker count and schedule, the
\* nodes and edges of the returned document are, as multisets, the
\* contribution of each object of the map taken once (and the refs).
C9_UnionOfContributions ==
    gpc = "done" =>
        [nodes |-> Bag(nodes), edges |-> Bag(edges)] = FullDoc(Objects, commits, head, heads)

\* A document of a map of several objects was returned.
C9_Witness ==
    gpc = "done" /\ Cardinality(DOMAIN Objects) >= 2 /\ Len(edges) >= 2

\* C10 as stated (SpecGraph): two ToJsonGraph calls on the unchanged Repo
\* return equal nodes (auxiliary fields included) and equal edge multisets.
C10_Idempotent == Len(docs) = 2 => docs[1] = docs[2]

\* C10 amended (SpecGraph): they do when the commits of the map have
\* pairwise distinct commit times.
C10_IdempotentDistinctTimes ==
    (Len(docs) = 2 /\ DistinctCommitTimes(Objects)) => docs[1] = docs[2]

\* Two documents of a map in which two commits of distinct times share a tree.
C10_Witness ==
    /\ Len(docs) = 2 /\ DistinctCommitTimes(Objects)
    /\ {"c1", "c3", "t1"} \subseteq DOMAIN Objects

(***************************************************************************)
(* The returned document, read by node name and edge source                *)
(***************************************************************************)
NodesNamed(n) == {i \in 1..Len(nodes) : nodes[i].name = n}

EdgesFrom(n) == {i \in 1..Len(edges) : edges[i].Src = n}

\* The destinations of the edges that leave n, as a multiset
DestsFrom(n) ==
    [d \in {edges[i].Dest : i \in EdgesFrom(n)} |->
        Cardinality({i \in EdgesFrom(n) : edges[i].Dest = d})]

OfType(objs, t) == {n \in DOMAIN objs : objs[n].Type = t}

\* The commits of the map whose tree is no key of the map
MissingTreeCommits(objs) ==
    {c \in OfType(objs, "commit") : ParsedCommit(objs[c]).Tree \notin DOMAIN objs}

\* C11 (SpecGraph): on a map with a commit whose tree id is no key of the
\* map, the snapshot does not end the process, and the returned document has
\* the commit's node and an edge from the commit to the missing tree id.
C11_MissingTreeCompletes ==
    MissingTreeCommits(Objects) # {} =>
        /\ status = "running"
        /\ gpc = "done" =>
              \A c \in MissingTreeCommits(Objects) :
                  /\ NodesNamed(c) # {}
                  /\ ParsedCommit(Objects[c]).Tree \in DOMAIN DestsFrom(c)

\* C12 (SpecGraph): in the returned document every commit of the map has
\* one node, and the edges that leave it are one to its tree and one to each
\* of its parents, and no other.
C12_CommitContribution ==
    gpc = "done" =>
        \A c \in OfType(Objects, "commit") :
            LET commit == ParsedCommit(Objects[c])
            IN  /\ Cardinality(NodesNamed(c)) = 1
                /\ DestsFrom(c) = Bag(commit.Parents \o <<commit.Tree>>)
                /\ Cardinality(EdgesFrom(c)) = Len(commit.Parents) + 1

\* A document of a map that holds a commit with a parent was returned.
C12_Witness ==
    /\ gpc = "done"
    /\ \E c \in OfType(Objects, "commit") : ParsedCommit(Objects[c]).Parents # <<>>

\* C13 (SpecGraph): in the returned document every tree of the map has one
\* node and one edge per entry to the entry's id; the node's commit field
\* is a commit of the map whose tree is this tree when there is one, and is
\* empty otherwise.
C13_TreeContribution ==
    gpc = "done" =>
        \A t \in OfType(Objects, "tree") :
            LET owners == {c \in OfType(Objects, "commit") : ParsedCommit(Objects[c]).Tree = t}
            IN  /\ Cardinality(NodesNamed(t)) = 1
                /\ DestsFrom(t) = Bag(ParsedTree(Objects[t]))
                /\ \A i \in NodesNamed(t) :
                      IF owners = {} THEN nodes[i].aux = "" ELSE nodes[i].aux \in owners

\* A document of a map with a tree and a commit of that tree was returned.
C13_Witness ==
    /\ gpc = "done"
    /\ \E t \in OfType(Objects, "tree"), c \in OfType(Objects, "commit") :
          ParsedCommit(Objects[c]).Tree = t

\* The tree t of the map lists b, itself or in a subtree found in the map.
RECURSIVE TreeReaches(_, _, _)
TreeReaches(objs, t, b) ==
    /\ t \in OfType(objs, "tree")
    /\ \E e \in Range(ParsedTree(objs[t])) : e = b \/ TreeReaches(objs, e, b)

\* The commits whose tree reaches b, and the earliest of them
ReachingCommits(objs, b) ==
    {c \in OfType(objs, "commit") : TreeReaches(objs, ParsedCommit(objs[c]).Tree, b)}

EarliestReaching(objs, b) ==
    {c \in ReachingCommits(objs, b) :
        \A d \in ReachingCommits(objs, b) :
            ParsedCommit(objs[c]).CommitTime <= ParsedCommit(objs[d]).CommitTime}

\* C14 (SpecGraph): in the returned document every blob of the map has one
\* node and no edge leaving it; the node's firstCommitRef is the earliest
\* commit whose tree reaches the blob, through subtrees too, and is empty
\* exactly when no commit's tree reaches it.
C14_BlobFirstCommit ==
    gpc = "done" =>
        \A b \in OfType(Objects, "blob") :
            /\ Cardinality(NodesNamed(b)) = 1
            /\ EdgesFrom(b) = {}
            /\ \A i \in NodesNamed(b) :
                  IF ReachingCommits(Objects, b) = {} THEN nodes[i].aux = ""
                  ELSE nodes[i].aux \in EarliestReaching(Objects, b)

\* C15 (SpecGraph): the returned document has one node HEAD and one edge
\* leaving HEAD; the edge ends at the commit a detached HEAD names, and at
\* the branch or its commit when HEAD is symbolic.
C15_OneHeadEdge ==
    gpc = "done" =>
        /\ Cardinality(NodesNamed("HEAD")) = 1
        /\ Cardinality(EdgesFrom("HEAD")) = 1
        /\ \A i \in EdgesFrom("HEAD") :
              IF head.symbolic
              THEN \/ edges[i].Dest = Base(head.target)
                   \/ \E k \in 1..Len(heads) :
                         /\ Base(heads[k].path) = Base(head.target)
                         /\ edges[i].Dest = heads[k].commit
              ELSE edges[i].Dest = Base(head.target)

\* C16 (SpecGraph): the node names of the returned document are pairwise
\* distinct, for every layout of refs/heads.
C16_NodeNamesDistinct ==
    gpc = "done" =>
        \A i, j \in 1..Len(nodes) : i # j => nodes[i].name # nodes[j].name

\* The store of one commit without parents whose tree has one blob entry
OneCommitStore == DOMAIN Objects = {"b1", "c1", "t1"}

NonRefNodes == {i \in 1..Len(nodes) : nodes[i].type # "ref"}

\* The object nodes and the branch layer of the document of that store
OneCommitStoreRest ==
    /\ {nodes[i].name : i \in NonRefNodes} = {"b1", "c1", "t1"}
    /\ Cardinality(NonRefNodes) = 3
    /\ DestsFrom("t1") = Bag(<<"b1">>)
    /\ NodesNamed("HEAD") # {}
    /\ \A k \in 1..Len(heads) :
          /\ NodesNamed(Base(heads[k].path)) # {}
          /\ heads[k].commit \in DOMAIN DestsFrom(Base(heads[k].path))

\* C17 as the end-to-end property words it (SpecGraph): 3 object nodes, 2
\* edges leaving the commit, 1 edge from the tree to the blob, and the refs.
C17_OneCommitTwoEdges ==
    (gpc = "done" /\ OneCommitStore) =>
        /\ OneCommitStoreRest
        /\ Cardinality(EdgesFrom("c1")) = 2

\* C17 (SpecGraph): 3 object nodes, 1 edge leaving the commit (to its tree,
\* none to a parent), 1 edge from the tree to the blob, and the refs.
C17_OneCommitOneEdge ==
    (gpc = "done" /\ OneCommitStore) =>
        /\ OneCommitStoreRest
        /\ DestsFrom("c1") = Bag(<<"t1">>)

\* The document of the one-commit store was returned, its branch present.
C17_Witness == gpc = "done" /\ OneCommitStore /\ heads # <<>>

(***************************************************************************)
(* Byte strings                                                            *)
(***************************************************************************)
newline == 10
lessThan == 60

Rep(b, n) == [i \in 1..n |-> b]

\* strings.Index(s, sub): the 0-based index of the first occurrence, or -1
Occurrences(s, sub) ==
    {i \in 0..(Len(s) - Len(sub)) : SubSeq(s, i + 1, i + Len(sub)) = sub}

Index(s, sub) ==
    IF Occurrences(s, sub) = {} THEN -1
    ELSE CHOOSE i \in Occurrences(s, sub) : \A j \in Occurrences(s, sub) : i <= j

\* strings.Split(s, sep) for a non-empty sep: the pieces between the
\* occurrences of sep, one piece when there is none
RECURSIVE Split(_, _)
Split(s, sep) ==
    LET i == Index(s, sep)
    IN  IF i < 0 THEN <<s>>
        ELSE <<Slice(s, 0, i)>> \o Split(Slice(s, i + Len(sep), Len(s)), sep)

\* strings.Trim(s, cutset) for a cutset of one byte
RECURSIVE TrimByte(_, _)
TrimByte(s, b) ==
    IF s # <<>> /\ Head(s) = b THEN TrimByte(Tail(s), b)
    ELSE IF s # <<>> /\ s[Len(s)] = b THEN TrimByte(SubSeq(s, 1, Len(s) - 1), b)
    ELSE s

\* hex.EncodeToString: two lower-case hex digits per byte
HexDigit(n) == IF n < 10 THEN 48 + n ELSE 87 + n

RECURSIVE HexEncode(_)
HexEncode(bytes) ==
    IF bytes = <<>> THEN <<>>
    ELSE <<HexDigit(Head(bytes) \div 16), HexDigit(Head(bytes) % 16)>> \o HexEncode(Tail(bytes))

(***************************************************************************)
(* ParseTree                                                               *)
(***************************************************************************)
\* The widths ParseTree steps by: 6 bytes of mode, 20 bytes of object id
ModeWidth == 6
HashWidth == 20

\* case 2: i := start; for obj.Content[i] != nul && i < contentLen-1 { i += 1 }
RECURSIVE NameEnd(_, _)
NameEnd(content, i) ==
    IF content[i + 1] # nul /\ i < Len(content) - 1 THEN NameEnd(content, i + 1) ELSE i

\* The loop "for stop <= contentLen { switch item ... }". obj.Content[i] in
\* case 2 is an index out of range when start = contentLen.
RECURSIVE ParseTreeLoop(_, _, _, _, _, _, _)
ParseTreeLoop(content, item, start, stop, mode, name, entries) ==
    IF ~(stop <= Len(content)) THEN [panic |-> FALSE, entries |-> entries]
    ELSE CASE item = 1 ->
                ParseTreeLoop(content, 2, stop, stop,
                              TrimSpace(Slice(content, start, stop)), name, entries)
           [] item = 2 ->
                IF start >= Len(content) THEN Panicked
                ELSE LET i == NameEnd(content, start)
                     IN  ParseTreeLoop(content, 3, i + 1, i + 1 + HashWidth, mode,
                                       TrimSpace(Slice(content, start, i)), entries)
           [] item = 3 ->
                ParseTreeLoop(content, 1, stop, stop + ModeWidth, mode, name,
                              Append(entries,
                                     [Mode |-> mode, Name |-> name,
                                      Hash |-> TrimSpace(HexEncode(Slice(content, start, stop)))]))

ParseTree(obj) == ParseTreeLoop(obj.Content, 1, 0, ModeWidth, <<>>, <<>>, <<>>)

\* ---- the trees git writes: per entry, mode SPACE name NUL and the 20 raw
\* bytes of the id
MaxEntries == 2

\* "40000" and "100644"
TreeModes == {<<52, 48, 48, 48, 48>>, <<49, 48, 48, 54, 52, 52>>}

\* "a", " a" and "a "
TreeNames == {<<97>>, <<32, 97>>, <<97, 32>>}

\* The bytes 1..20 (tab, newline and other white space among them), and 20
\* times 0xab
TreeIds == {[i \in 1..HashWidth |-> i], Rep(171, HashWidth)}

TreeEntries == [mode : TreeModes, name : TreeNames, id : TreeIds]

TreeInputs == UNION {[1..n -> TreeEntries] : n \in 0..MaxEntries}

SerializeEntry(e) == e.mode \o <<space>> \o e.name \o <<nul>> \o e.id

RECURSIVE SerializeTree(_)
SerializeTree(es) ==
    IF es = <<>> THEN <<>> ELSE SerializeEntry(Head(es)) \o SerializeTree(Tail(es))

\* ---- SpecTree: ParseTree on a serialized tree cut after any of its bytes
InitTree ==
    /\ InitConnIdle
    /\ \E es \in TreeInputs :
          \E k \in 0..Len(SerializeTree(es)) :
              /\ written = [kind |-> "tree", entries |-> es, cut |-> k]
              /\ data = SubSeq(SerializeTree(es), 1, k)
    /\ decoded = NotCalled
    /\ InitStoreIdle /\ InitRepoIdle /\ InitCallersIdle /\ InitGraphIdle
    /\ hist = NoHist

\* entries := ParseTree(obj)
ParseTreeCall ==
    /\ ~decoded.called /\ written.kind = "tree"
    /\ decoded' = [called |-> TRUE, result |-> ParseTree([Content |-> data])]
    /\ UNCHANGED <<data, written, connVars, storeVars, repoVars, callerVars, graphVars, hist>>

SpecTree == InitTree /\ [][ParseTreeCall]_vars

\* The entries as mode, name and hex id
HexEntries(es) ==
    [i \in 1..Len(es) |-> [Mode |-> es[i].mode, Name |-> es[i].name, Hash |-> HexEncode(es[i].id)]]

\* The lengths at which the serialized tree ends a record
Boundaries(es) == {Len(SerializeTree(SubSeq(es, 1, j))) : j \in 0..Len(es)}

\* The entries that lie whole within the first k bytes
LeadingEntries(es, k) ==
    LET j == CHOOSE x \in 0..Len(es) :
                 /\ Len(SerializeTree(SubSeq(es, 1, x))) <= k
                 /\ \A y \in 0..Len(es) : Len(SerializeTree(SubSeq(es, 1, y))) <= k => y <= x
    IN  SubSeq(es, 1, j)

\* C18 (SpecTree): ParseTree of a serialized sequence of entries returns
\* that sequence, mode, name and hex id, in order.
C18_TreeRoundTrip ==
    (/\ decoded.called /\ written.kind = "tree"
     /\ written.cut = Len(SerializeTree(written.entries)))
        => /\ ~decoded.result.panic
           /\ decoded.result.entries = HexEntries(written.entries)

\* C19 (SpecTree): on a content that ends inside a record ParseTree does not
\* panic and does not return just the entries that are whole.
C19_PartialRecordReported ==
    (/\ decoded.called /\ written.kind = "tree"
     /\ written.cut \notin Boundaries(written.entries))
        => /\ ~decoded.result.panic
           /\ decoded.result.entries # HexEntries(LeadingEntries(written.entries, written.cut))

(***************************************************************************)
(* ParseCommit                                                             *)
(***************************************************************************)
\* "tree ", "parent", "author" and "committer"
treeWord == <<116, 114, 101, 101, 32>>
parentWord == <<112, 97, 114, 101, 110, 116>>
authorWord == <<97, 117, 116, 104, 111, 114>>
committerWord == <<99, 111, 109, 109, 105, 116, 116, 101, 114>>

\* The zero time.Time, the value of commitTime and authorTime until a header
\* line sets them, and time.Unix(i, 0)
ZeroTime == [isZero |-> TRUE, unix |-> 0]
UnixTime(i) == [isZero |-> FALSE, unix |-> i]

\* getTime ends the process (log.Fatal) when ParseInt fails
CommitFatal == [panic |-> FALSE, fatal |-> TRUE]

Digits == 48..57

\* strconv.ParseInt(s, 10, 64) succeeds: an optional sign and one or more
\* decimal digits (values beyond 64 bits do not occur in the inputs)
IsInt(s) ==
    LET ds == IF s # <<>> /\ Head(s) \in {43, 45} THEN Tail(s) ELSE s
    IN  ds # <<>> /\ \A i \in 1..Len(ds) : ds[i] \in Digits

RECURSIVE DigitsValue(_)
DigitsValue(ds) ==
    IF ds = <<>> THEN 0 ELSE 10 * DigitsValue(SubSeq(ds, 1, Len(ds) - 1)) + (ds[Len(ds)] - 48)

ParseInt(s) ==
    IF Head(s) = 45 THEN 0 - DigitsValue(Tail(s))
    ELSE IF Head(s) = 43 THEN DigitsValue(Tail(s))
    ELSE DigitsValue(s)

\* The body of the author branch and of the committer branch: from is 7,
\* respectively 10. line[from:nameEnd] is out of range when "<" is missing or
\* too early, authorLine[1] when nothing follows the first space.
UserLine(line, from) ==
    LET nameEnd == Index(line, <<lessThan>>)
    IN  IF nameEnd < from THEN Panicked
        ELSE LET fields == Split(Slice(line, nameEnd, Len(line)), <<space>>)
             IN  IF Len(fields) < 2 THEN Panicked
                 ELSE IF ~IsInt(fields[2]) THEN CommitFatal
                 ELSE [panic |-> FALSE, fatal |-> FALSE,
                       user |-> [Name |-> Slice(line, from, nameEnd), Email |-> fields[1]],
                       time |-> UnixTime(ParseInt(fields[2]))]

\* for _, line := range restOfContent
RECURSIVE ParseCommitLines(_, _, _)
ParseCommitLines(lines, k, acc) ==
    IF k > Len(lines) THEN acc
    ELSE LET line == lines[k]
         IN  IF Len(line) < 9 THEN ParseCommitLines(lines, k + 1, acc)
             ELSE IF SubSeq(line, 1, 6) = parentWord
                  THEN IF Len(line) < 47 THEN Panicked
                       ELSE ParseCommitLines(lines, k + 1,
                                [acc EXCEPT !.Parents = Append(@, Slice(line, 7, 47))])
             ELSE IF SubSeq(line, 1, 6) = authorWord
                  THEN LET u == UserLine(line, 7)
                       IN  IF u.panic \/ u.fatal THEN u
                           ELSE ParseCommitLines(lines, k + 1,
                                    [acc EXCEPT !.Author = u.user, !.AuthorTime = u.time])
             ELSE IF SubSeq(line, 1, 9) = committerWord
                  THEN LET u == UserLine(line, 10)
                       IN  IF u.panic \/ u.fatal THEN u
                           ELSE ParseCommitLines(lines, k + 1,
                                    [acc EXCEPT !.Committer = u.user, !.CommitTime = u.time])
             ELSE ParseCommitLines(lines, k + 1, acc)

\* obj.Content[46:] is out of range for a content of fewer than 46 bytes,
\* strings.Split(content, "\n\n")[1] when the content has no blank line.
ParseCommit(obj) ==
    IF Len(obj.Content) < 46 THEN Panicked
    ELSE LET treeHash == Slice(obj.Content, 5, 45)
             content == Slice(obj.Content, 46, Len(obj.Content))
             restOfContent == Split(content, <<newline>>)
             paragraphs == Split(content, <<newline, newline>>)
         IN  IF Len(paragraphs) < 2 THEN Panicked
             ELSE ParseCommitLines(restOfContent, 1,
                      [panic |-> FALSE, fatal |-> FALSE,
                       Tree |-> treeHash, Parents |-> <<>>,
                       Author |-> [Name |-> <<>>, Email |-> <<>>],
                       Committer |-> [Name |-> <<>>, Email |-> <<>>],
                       Message |-> TrimByte(paragraphs[2], newline),
                       CommitTime |-> ZeroTime, AuthorTime |-> ZeroTime])

\* ---- the commits git writes: the tree line, one line per parent, the
\* author and committer lines, a blank line, the message
MaxParents == 2

\* 40 times "1"; 40 times "a" and 40 times "b"
CommitTreeId == Rep(49, 40)
ParentIds == {Rep(97, 40), Rep(98, 40)}

ParentInputs == UNION {[1..n -> ParentIds] : n \in 0..MaxParents}

\* "A" and "Bo"
UserNames == {<<65>>, <<66, 111>>}

\* "1" and "2"
TimeFields == {<<49>>, <<50>>}

\* " <a@b> " and " +0000"
emailField == <<32, 60, 97, 64, 98, 62, 32>>
zoneField == <<32, 43, 48, 48, 48, 48>>

\* "fix"
MsgShort == <<102, 105, 120>>
\* "fix the parser"
MsgPlain == <<102, 105, 120, 32, 116, 104, 101, 32, 112, 97, 114, 115, 101, 114>>
\* "parent of all"
MsgParentShort == parentWord \o <<32, 111, 102, 32, 97, 108, 108>>
\* "parents" followed by 40 times "x"
MsgParentLong == parentWord \o <<115>> \o Rep(120, 40)
\* "authored by bob"
MsgAuthored == authorWord \o <<101, 100, 32, 98, 121, 32, 98, 111, 98>>
\* "fix", a blank line, "more"
MsgTwoParagraphs == <<102, 105, 120, 10, 10, 109, 111, 114, 101>>

\* "fix" and a newline of its own
MsgTrailingNewline == <<102, 105, 120, 10>>

Messages ==
    {MsgShort, MsgPlain, MsgParentShort, MsgParentLong, MsgAuthored, MsgTwoParagraphs,
     MsgTrailingNewline}

CommitInputs ==
    [tree : {CommitTreeId}, parents : ParentInputs, name : UserNames,
     time : TimeFields, message : Messages]

RECURSIVE ParentLines(_)
ParentLines(ps) ==
    IF ps = <<>> THEN <<>>
    ELSE parentWord \o <<space>> \o Head(ps) \o <<newline>> \o ParentLines(Tail(ps))

SerializeCommit(c) ==
    treeWord \o c.tree \o <<newline>>
    \o ParentLines(c.parents)
    \o authorWord \o <<space>> \o c.name \o emailField \o c.time \o zoneField \o <<newline>>
    \o committerWord \o <<space>> \o c.name \o emailField \o c.time \o zoneField \o <<newline>>
    \o <<newline>> \o c.message \o <<newline>>

\* ---- SpecCommit: ParseCommit on a serialized commit
InitCommit ==
    /\ InitConnIdle
    /\ \E c \in CommitInputs :
          /\ written = [kind |-> "commit", commit |-> c]
          /\ data = SerializeCommit(c)
    /\ decoded = NotCalled
    /\ InitStoreIdle /\ InitRepoIdle /\ InitCallersIdle /\ InitGraphIdle
    /\ hist = NoHist

\* commit := ParseCommit(obj)
ParseCommitCall ==
    /\ ~decoded.called /\ written.kind = "commit"
    /\ decoded' = [called |-> TRUE, result |-> ParseCommit([Content |-> data])]
    /\ UNCHANGED <<data, written, connVars, storeVars, repoVars, callerVars, graphVars, hist>>

SpecCommit == InitCommit /\ [][ParseCommitCall]_vars

\* C20 (SpecCommit): the Parents of a commit written with k parent lines are
\* the ids of those k lines, in order, whatever the message says.
C20_ParentsFromHeaderOnly ==
    (decoded.called /\ written.kind = "commit")
        => /\ ~decoded.result.panic
           /\ ~decoded.result.fatal
           /\ decoded.result.Parents = written.commit.parents

\* C21 (SpecCommit): when ParseCommit returns, Message is everything after
\* the first blank line of the content less one trailing newline, that is,
\* the message the commit was written with.
C21_MessageAfterFirstBlankLine ==
    (/\ decoded.called /\ written.kind = "commit"
     /\ ~decoded.result.panic /\ ~decoded.result.fatal)
        => decoded.result.Message = written.commit.message

\* C22 (SpecCommit): ParseCommit never fails with an index or a slice out of
\* range, whatever lines the content has.
C22_ParseCommitInBounds ==
    (decoded.called /\ written.kind = "commit") => ~decoded.result.panic

\* ---- payloads of the form type SPACE size NUL content
\* The position (from 1) of the first SPACE, and of the first NUL after it
SpacePositions(bytes) == {i \in 1..Len(bytes) : bytes[i] = space}

FirstSpace(bytes) ==
    CHOOSE i \in SpacePositions(bytes) : \A j \in SpacePositions(bytes) : i <= j

NulPositionsAfter(bytes, i) == {j \in (i + 1)..Len(bytes) : bytes[j] = nul}

FirstNulAfter(bytes, i) ==
    CHOOSE j \in NulPositionsAfter(bytes, i) : \A k \in NulPositionsAfter(bytes, i) : j <= k

HasHeader(bytes) ==
    /\ SpacePositions(bytes) # {}
    /\ NulPositionsAfter(bytes, FirstSpace(bytes)) # {}

\* C23 (SpecDecode): for a payload with a SPACE and a NUL after it, the
\* decoded type is the trimmed bytes before the first SPACE, the size the
\* trimmed bytes between that SPACE and the first NUL after it, the content
\* every byte after that NUL; "blob 5\0hello" gives blob, "5", "hello".
C23_DecodeHeaderFields ==
    /\ (decoded.called /\ written.kind = "none" /\ HasHeader(data))
          => LET i == FirstSpace(data)
                 j == FirstNulAfter(data, i)
             IN  /\ ~decoded.result.panic
                 /\ decoded.result.Type = TrimSpace(SubSeq(data, 1, i - 1))
                 /\ decoded.result.Size = TrimSpace(SubSeq(data, i + 1, j - 1))
                 /\ decoded.result.Content = SubSeq(data, j + 1, Len(data))
    /\ (decoded.called /\ data = PayloadHello)
          => /\ ~decoded.result.panic
             /\ TypeName(decoded.result.Type) = "blob"
             /\ decoded.result.Size = <<53>>
             /\ decoded.result.Content = <<104, 101, 108, 108, 111>>

\* A payload was decoded whose content holds a SPACE and a NUL
C23_Witness ==
    /\ decoded.called /\ written.kind = "none" /\ HasHeader(data)
    /\ ~decoded.result.panic
    /\ \E i, j \in 1..Len(decoded.result.Content) :
          decoded.result.Content[i] = space /\ decoded.result.Content[j] = nul

(***************************************************************************)
(* ParseBlob                                                               *)
(***************************************************************************)
\* log.Fatal(err) after strconv.Atoi
BlobFatal == [panic |-> FALSE, fatal |-> TRUE]

\* git_tools.go ParseBlob: the size is the object's Size field converted to
\* an int, the content the object's content as a string (the same bytes)
ParseBlob(obj) ==
    IF ~IsInt(obj.Size) THEN BlobFatal
    ELSE [panic |-> FALSE, fatal |-> FALSE, Content |-> obj.Content, Size |-> ParseInt(obj.Size)]

\* ---- SpecBlob: ParseBlob on blob objects whose header declares any size
MaxBlobLen == 2

\* "", "0", "1", "2", "5", "12", "-1" and "b"
SizeFields == {<<>>, <<48>>, <<49>>, <<50>>, <<53>>, <<49, 50>>, <<45, 49>>, <<98>>}

InitBlob ==
    /\ InitConnIdle
    /\ data \in BytesUpTo(MaxBlobLen)
    /\ \E sz \in SizeFields : written = [kind |-> "blob", size |-> sz]
    /\ decoded = NotCalled
    /\ InitStoreIdle /\ InitRepoIdle /\ InitCallersIdle /\ InitGraphIdle
    /\ hist = NoHist

\* blob := ParseBlob(obj)
ParseBlobCall ==
    /\ ~decoded.called /\ written.kind = "blob"
    /\ decoded' = [called |-> TRUE,
                   result |-> ParseBlob([Type |-> TypeBytes("blob"), Size |-> written.size,
                                         Content |-> data])]
    /\ UNCHANGED <<data, written, connVars, storeVars, repoVars, callerVars, graphVars, hist>>

SpecBlob == InitBlob /\ [][ParseBlobCall]_vars

\* C24 (SpecBlob): ParseBlob of a blob object returns its content as it is
\* and the number of bytes of that content as the size, whatever the size
\* field of the object says.
C24_BlobSizeIsContentLength ==
    (decoded.called /\ written.kind = "blob")
        => /\ ~decoded.result.fatal
           /\ decoded.result.Content = data
           /\ decoded.result.Size = Len(data)

(***************************************************************************)
(* SpecPool: ParallelWork(data, task, workers) and a consumer              *)
(*     for d := range ParallelWork(...) { ... }                            *)
(* for every len(data) up to MaxInputs and every workers in 1..NumWorkers. *)
(* The task is any function that returns; the data are 1..len(data) and    *)
(* the result of task t carries t.                                         *)
(***************************************************************************)
MaxInputs == 3

\* task(t)
TaskResult(t) == [panic |-> FALSE, Edges |-> <<>>, Nodes |-> <<t>>]

\* hist.n is len(data), hist.workers the argument workers, hist.executed the
\* tasks run so far, in the order they were run
InitPool ==
    /\ InitConnIdle
    /\ InitDecodeIdle /\ InitStoreIdle /\ InitRepoIdle /\ InitCallersIdle
    /\ gpc = "start"
    /\ commits = <<>>
    /\ \E n \in 0..MaxInputs : \E k \in 1..NumWorkers :
          /\ inputs = [i \in 1..n |-> i]
          /\ hist = [n |-> n, workers |-> k, executed |-> <<>>]
    /\ tasks = [buf |-> <<>>, closed |-> FALSE]
    /\ results = [closed |-> FALSE]
    /\ wg = 0
    /\ wpc = [w \in Workers |-> "none"]
    /\ wval = [w \in Workers |-> NoData]
    /\ nodes = <<>>
    /\ edges = <<>>
    /\ docs = <<>>

\* for i := range workers { wg.Add(1); go func() { defer wg.Done(); worker(...) }() }
PoolStart ==
    /\ gpc = "start"
    /\ wg' = hist.workers
    /\ wpc' = [w \in Workers |-> IF w <= hist.workers THEN "recv" ELSE "none"]
    /\ gpc' = "push"
    /\ UNCHANGED <<decodeVars, connVars, storeVars, repoVars, callerVars, commits, inputs, tasks, results,
                   wval, nodes, edges, docs, hist>>

\* tasks <- d: the buffer holds len(data), the send never blocks
PoolPush ==
    /\ gpc = "push" /\ inputs # <<>>
    /\ tasks' = [tasks EXCEPT !.buf = Append(@, Head(inputs))]
    /\ inputs' = Tail(inputs)
    /\ UNCHANGED <<decodeVars, connVars, storeVars, repoVars, callerVars, gpc, commits, results, wg, wpc,
                   wval, nodes, edges, docs, hist>>

\* close(tasks); go func() { wg.Wait(); close(results) }(); return results
PoolCloseTasks ==
    /\ gpc = "push" /\ inputs = <<>>
    /\ tasks' = [tasks EXCEPT !.closed = TRUE]
    /\ gpc' = "range"
    /\ UNCHANGED <<decodeVars, connVars, storeVars, repoVars, callerVars, commits, inputs, results, wg, wpc,
                   wval, nodes, edges, docs, hist>>

\* worker: t := <-tasks; task(t)
PoolWork(w) ==
    /\ wpc[w] = "recv" /\ tasks.buf # <<>>
    /\ tasks' = [tasks EXCEPT !.buf = Tail(@)]
    /\ wval' = [wval EXCEPT ![w] = TaskResult(Head(tasks.buf))]
    /\ wpc' = [wpc EXCEPT ![w] = "send"]
    /\ hist' = [hist EXCEPT !.executed = Append(@, Head(tasks.buf))]
    /\ UNCHANGED <<decodeVars, connVars, storeVars, repoVars, callerVars, gpc, commits, inputs, results, wg,
                   nodes, edges, docs>>

\* worker: results <- task(t), received by the consumer's range. A send on
\* the closed channel is a panic.
PoolDeliver(w) ==
    /\ status = "running" /\ wpc[w] = "send"
    /\ IF results.closed
       THEN /\ status' = "panic"
            /\ UNCHANGED <<nodes, wpc, wval>>
       ELSE /\ gpc = "range"
            /\ nodes' = nodes \o wval[w].Nodes
            /\ wpc' = [wpc EXCEPT ![w] = "recv"]
            /\ wval' = [wval EXCEPT ![w] = NoData]
            /\ UNCHANGED status
    /\ UNCHANGED <<decodeVars, connVars, storeVars, Objects, Checksum, openPc, openObjects, callerVars, gpc,
                   commits, inputs, tasks, results, wg, edges, docs, hist>>

\* worker: the range over tasks ends (closed and drained); wg.Done()
PoolWorkerDone(w) ==
    /\ wpc[w] = "recv" /\ tasks.buf = <<>> /\ tasks.closed
    /\ wpc' = [wpc EXCEPT ![w] = "done"]
    /\ wg' = wg - 1
    /\ UNCHANGED <<decodeVars, connVars, storeVars, repoVars, callerVars, gpc, commits, inputs, tasks,
                   results, wval, nodes, edges, docs, hist>>

\* close(results) without wg.Wait()
PoolCloseResultsNoWait ==
    /\ gpc = "range" /\ ~results.closed
    /\ results' = [closed |-> TRUE]
    /\ UNCHANGED <<decodeVars, connVars, storeVars, repoVars, callerVars, gpc, commits, inputs, tasks,
                   wg, wpc, wval, nodes, edges, docs, hist>>

\* wg.Wait(); close(results)
PoolCloseResults ==
    /\ gpc = "range" /\ wg = 0 /\ ~results.closed
    /\ results' = [closed |-> TRUE]
    /\ UNCHANGED <<decodeVars, connVars, storeVars, repoVars, callerVars, gpc, commits, inputs, tasks,
                   wg, wpc, wval, nodes, edges, docs, hist>>

\* consumer: the range over results ends
PoolRangeEnd ==
    /\ status = "running" /\ gpc = "range" /\ results.closed
    /\ gpc' = "done"
    /\ UNCHANGED <<decodeVars, connVars, storeVars, repoVars, callerVars, commits, inputs, tasks, results,
                   wg, wpc, wval, nodes, edges, docs, hist>>

PoolNext ==
    \/ PoolStart
    \/ PoolPush
    \/ PoolCloseTasks
    \/ \E w \in Workers : PoolWork(w)
    \/ \E w \in Workers : PoolDeliver(w)
    \/ \E w \in Workers : PoolWorkerDone(w)
    \/ PoolCloseResults
    \/ PoolRangeEnd

\* Every goroutine that can take a step is scheduled in the end.
PoolFairness ==
    /\ WF_vars(PoolStart \/ PoolPush \/ PoolCloseTasks)
    /\ \A w \in Workers : WF_vars(PoolWork(w) \/ PoolDeliver(w) \/ PoolWorkerDone(w))
    /\ WF_vars(PoolCloseResults)
    /\ WF_vars(PoolRangeEnd)

SpecPool == InitPool /\ [][PoolNext]_vars /\ PoolFairness

\* The number of times task t was run
TimesExecuted(t) == Cardinality({i \in 1..Len(hist.executed) : hist.executed[i] = t})

PoolSafe ==
    /\ status = "running"
    /\ \A t \in 1..hist.n : TimesExecuted(t) <= 1
    /\ \A w \in Workers : wpc[w] = "send" => ~results.closed
    /\ results.closed =>
          /\ Len(nodes) = hist.n
          /\ \A w \in Workers : wpc[w] \in {"none", "done"}
    /\ gpc = "done" =>
          /\ results.closed
          /\ \A t \in 1..hist.n :
                TimesExecuted(t) = 1 /\ Cardinality({i \in 1..Len(nodes) : nodes[i] = t}) = 1

PoolDone == gpc = "done" /\ \A w \in Workers : wpc[w] \in {"none", "done"}

\* C25 (SpecPool): for every number of inputs and of workers, each task is
\* run once, no worker sends on the closed results channel, the channel is
\* closed only when every result was received and every worker is done, the
\* consumer has received each result once when its range ends, and the
\* workers and the consumer's range do end.
C25_CompletionBarrier == []PoolSafe /\ <>[]PoolDone

\* The range ended after several workers ran the largest number of inputs
C25_Witness ==
    /\ gpc = "done" /\ hist.n = MaxInputs /\ hist.workers = NumWorkers
    /\ Len(nodes) = MaxInputs

\* C27 (SpecTree): ParseTree never reads outside the content, whatever its
\* length, and returns no entry for the empty content.
C27_ParseTreeInBounds ==
    (decoded.called /\ written.kind = "tree")
        => /\ ~decoded.result.panic
           /\ data = <<>> => decoded.result.entries = <<>>

(***************************************************************************)
(* SpecServer: server.go. serveWs upgrades the request, counts the files   *)
(* of .git, starts writer in a goroutine and runs reader. A call of        *)
(* ws.WriteMessage lasts from the step that enters it to the step in which *)
(* it returns.                                                             *)
(***************************************************************************)
MaxPollMutations == 2

\* server.go getNumberOfFiles on .git: the loose object files, HEAD and the
\* branch files
getNumberOfFiles(d, b) == Cardinality({id \in ObjectIds : d[id] # "absent"}) + 1 + Len(b)

\* The two contents of HEAD
HeadFiles ==
    {[symbolic |-> TRUE, target |-> <<"refs", "heads", "main">>],
     [symbolic |-> FALSE, target |-> <<"c1">>]}

\* HEAD is rewritten (checkout of a branch, or of a commit)
WriteHead ==
    /\ Running /\ mutations < limit
    /\ \E h \in HeadFiles : h # head /\ head' = h
    /\ mutations' = mutations + 1
    /\ hist' = [hist EXCEPT !.since = Since("head")]
    /\ UNCHANGED <<decodeVars, connVars, graphVars, disk, stray, rootOK, heads, limit, repoVars,
                   callerVars>>

InitServer ==
    /\ InitDecodeIdle /\ InitCallersIdle /\ InitGraphIdle /\ InitConnIdle
    /\ disk = [NoDisk EXCEPT !["t1"] = "ok", !["c1"] = "ok"]
    /\ stray = "absent"
    /\ rootOK = TRUE
    /\ head = [symbolic |-> TRUE, target |-> <<"refs", "heads", "main">>]
    /\ heads = <<[path |-> <<"main">>, commit |-> "c1"]>>
    /\ mutations = 0
    /\ limit = MaxPollMutations
    /\ status = "running"
    /\ Objects = GetObjects(ObjectFiles(disk), TRUE).objects
    /\ Checksum = <<>>
    /\ openPc = "done"
    /\ openObjects = NoObjects
    /\ hist = NoHist

\* serveWs: the upgrade succeeds; num := getNumberOfFiles(...);
\* go writer(ws, numFiles); reader(ws)
ServeWs ==
    /\ Running /\ conn = "none"
    /\ conn' = "open"
    /\ numFiles' = getNumberOfFiles(disk, heads)
    /\ tickers' = "running"
    /\ wr' = "select"
    /\ rd' = "read"
    /\ hist' = [hist EXCEPT !.since = "none"]
    /\ UNCHANGED <<decodeVars, storeVars, repoVars, callerVars, graphVars>>

\* reader: ws.ReadMessage returns a message; for need-objects the reply is
\* built (repo.toJson) and ws.WriteMessage is entered
ReaderMessage ==
    /\ Running /\ rd = "read" /\ conn = "open"
    /\ \E msg \in {"need-objects", "other"} :
          rd' = IF msg = "need-objects" THEN "write" ELSE "read"
    /\ UNCHANGED <<decodeVars, storeVars, repoVars, callerVars, graphVars, numFiles, conn, wr,
                   tickers, hist>>

\* reader returning without the deferred ws.Close()
ReaderReturnNoClose ==
    /\ Running /\ rd = "read" /\ conn = "open"
    /\ rd' = "returned"
    /\ UNCHANGED <<decodeVars, storeVars, repoVars, callerVars, graphVars, numFiles, conn, wr,
                   tickers, hist>>

\* reader: ws.ReadMessage returns an error on the open connection (the
\* client went away, a broken frame, the read deadline); break; ws.Close()
ReaderReadFails ==
    /\ Running /\ rd = "read" /\ conn = "open"
    /\ rd' = "returned"
    /\ conn' = "closed"
    /\ UNCHANGED <<decodeVars, storeVars, repoVars, callerVars, graphVars, numFiles, wr, tickers,
                   hist>>

\* reader: ws.ReadMessage returns an error because the connection was
\* closed by the writer; break; ws.Close()
ReaderReadClosed ==
    /\ Running /\ rd = "read" /\ conn = "closed"
    /\ rd' = "returned"
    /\ UNCHANGED <<decodeVars, storeVars, repoVars, callerVars, graphVars, numFiles, conn, wr,
                   tickers, hist>>

\* The goroutines inside ws.WriteMessage
Writing == (IF rd = "write" THEN {"reader"} ELSE {}) \cup (IF wr \in {"push", "ping"} THEN {"writer"} ELSE {})

\* reader: ws.WriteMessage returns. It fails on a closed connection and can
\* fail on an open one; next to a write of the writer goroutine it can also
\* panic, which the HTTP server recovers from after the deferred ws.Close()
\* ran. On an error: return; ws.Close()
ReaderWriteReturns ==
    /\ Running /\ rd = "write"
    /\ \E ok \in {TRUE, FALSE} :
          /\ ok => conn = "open"
          /\ rd' = IF ok THEN "read" ELSE "returned"
          /\ conn' = IF ok THEN conn ELSE "closed"
    /\ UNCHANGED <<decodeVars, storeVars, repoVars, callerVars, graphVars, numFiles, wr, tickers,
                   hist>>

\* writer: case <-repoTicker.C, with getObjectsIfChange: the files of .git
\* are counted; when the count differs from *numFiles it is stored, the Repo
\* is refreshed, the document built and ws.WriteMessage entered
WriterRepoTick ==
    /\ Running /\ wr = "select"
    /\ LET newNumFiles == getNumberOfFiles(disk, heads)
       IN  IF newNumFiles # numFiles
           THEN /\ numFiles' = newNumFiles
                /\ Objects' = GetObjects(ObjectFiles(disk), rootOK).objects
                /\ wr' = "push"
           ELSE UNCHANGED <<numFiles, Objects, wr>>
    /\ hist' = [hist EXCEPT !.polled = hist.since, !.since = "none"]
    /\ UNCHANGED <<decodeVars, storeVars, status, Checksum, openPc, openObjects, callerVars,
                   graphVars, conn, rd, tickers>>

\* writer: case <-pingTicker.C: ws.WriteMessage(websocket.PingMessage, nil)
\* is entered
WriterPingTick ==
    /\ Running /\ wr = "select"
    /\ wr' = "ping"
    /\ UNCHANGED <<decodeVars, storeVars, repoVars, callerVars, graphVars, numFiles, conn, rd,
                   tickers, hist>>

\* writer: ws.WriteMessage returns. On an error: return, and the deferred
\* function stops the tickers and closes the connection. Next to a write of
\* the reader it can also panic, which ends the process.
WriterWriteReturns ==
    /\ Running /\ wr \in {"push", "ping"}
    /\ \E outcome \in {"ok", "error", "panic"} :
          /\ outcome = "ok" => conn = "open"
          /\ outcome = "panic" => rd = "write"
          /\ wr' = IF outcome = "ok" THEN "select" ELSE IF outcome = "error" THEN "returned" ELSE wr
          /\ tickers' = IF outcome = "error" THEN "stopped" ELSE tickers
          /\ conn' = IF outcome = "error" THEN "closed" ELSE conn
          /\ status' = IF outcome = "panic" THEN "panic" ELSE status
    /\ UNCHANGED <<decodeVars, storeVars, Objects, Checksum, openPc, openObjects, callerVars,
                   graphVars, numFiles, rd, hist>>

ServerNext ==
    \/ \E id \in ObjectIds : WriteObject(id, "ok")
    \/ \E id \in ObjectIds : RemoveObject(id)
    \/ WriteHead
    \/ ServeWs
    \/ ReaderMessage
    \/ ReaderReadFails
    \/ ReaderReadClosed
    \/ ReaderWriteReturns
    \/ WriterRepoTick
    \/ WriterPingTick
    \/ WriterWriteReturns

\* A goroutine that can run is scheduled in the end, and a call on the
\* connection returns; the ping ticker fires again and again, and a select
\* with several ready cases takes each of them in the end.
ServerFairness ==
    /\ WF_vars(ServeWs)
    /\ WF_vars(ReaderReadClosed)
    /\ WF_vars(ReaderWriteReturns)
    /\ WF_vars(WriterWriteReturns)
    /\ SF_vars(WriterPingTick)

SpecServer == InitServer /\ [][ServerNext]_vars /\ ServerFairness

\* C26 (SpecServer): a poll tick of the writer enters the push of a snapshot
\* exactly when the store changed since the connection's previous poll (or
\* since the connection was made).
C26_PushIffChanged ==
    [][WriterRepoTick => ((wr' = "push") <=> (hist.since # "none"))]_vars

\* C28 (SpecServer): the reader goroutine and the writer goroutine are never
\* both inside ws.WriteMessage.
C28_OneWriterAtATime == Cardinality(Writing) <= 1

\* C29 (SpecServer): a goroutine that returned has closed the connection
\* (and the writer has stopped its tickers); once the reader has returned the
\* writer returns, and once the writer has returned the reader returns,
\* unless the process has ended before.
Ended == status # "running"

C29_NoGoroutineOutlivesConnection ==
    /\ [](rd = "returned" => conn = "closed")
    /\ [](wr = "returned" => (conn = "closed" /\ tickers = "stopped"))
    /\ (rd = "returned") ~> (Ended \/ (wr = "returned" /\ tickers = "stopped"))
    /\ (wr = "returned") ~> (Ended \/ rd = "returned")

\* Both goroutines have returned and the process goes on
C29_Witness ==
    /\ rd = "returned" /\ wr = "returned" /\ conn = "closed" /\ tickers = "stopped"
    /\ status = "running"

(***************************************************************************)
(* SpecChan: gitutils.go Repo.toJsonGraph. One goroutine per object sends  *)
(* the object's node on nodesChan and its edges on edgesChan; the caller   *)
(* sends the nodes and edges of HEAD and of the branches and then collects *)
(* both channels with toSlice. Both channels are unbuffered: a send is a   *)
(* step only while another goroutine is receiving from the channel.        *)
(***************************************************************************)
\* The goroutine, if any, that is receiving from channel c: the caller,
\* inside toSlice(nodesChan) or toSlice(edgesChan)
ReceiverReady(c) ==
    \/ c = "nodes" /\ gpc = "collect_nodes"
    \/ c = "edges" /\ gpc = "collect_edges"

\* toJsonGraph holds no close(nodesChan) and no close(edgesChan)
ChanClosed(c) == FALSE

\* The edges the goroutine of obj sends: a commit's edges to its parents and
\* then to its tree, a tree's edges to its entries
ObjectEdges(obj) ==
    CASE obj.Type = "commit" ->
            LET commit == ParsedCommit(obj)
            IN  [i \in 1..Len(commit.Parents) |-> Edge(obj.Name, commit.Parents[i])]
                \o <<Edge(obj.Name, commit.Tree)>>
      [] obj.Type = "tree" ->
            LET entries == ParsedTree(obj)
            IN  [i \in 1..Len(entries) |-> Edge(obj.Name, entries[i])]
      [] OTHER -> <<>>

\* What the caller sends after it started the goroutines: HEAD's node and
\* edge, each branch's node and edge
RefMessages(h, hs) ==
    LET hd == RepoHead(h)
        bs == Branches(hs)
        rec(i) == IF i % 2 = 1
                  THEN [chan |-> "nodes", val |-> RefNode(bs[(i + 1) \div 2].Name)]
                  ELSE [chan |-> "edges", val |-> Edge(bs[i \div 2].Name, bs[i \div 2].Commit)]
    IN  <<[chan |-> "nodes", val |-> RefNode("HEAD")],
          [chan |-> "edges", val |-> Edge("HEAD", Base(hd.Value))]>>
        \o [i \in 1..(2 * Len(bs)) |-> rec(i)]

InitChan ==
    /\ InitDecodeIdle /\ InitCallersIdle /\ InitConnIdle
    /\ disk = NoDisk /\ stray = "absent" /\ rootOK = TRUE /\ mutations = 0 /\ limit = 0
    /\ head = [symbolic |-> TRUE, target |-> <<"refs", "heads", "main">>]
    /\ heads \in GraphHeads
    /\ status = "running"
    /\ Objects \in GraphMaps
    /\ \A k \in 1..Len(heads) : heads[k].commit \in DOMAIN Objects
    /\ Checksum = <<>>
    /\ openPc = "done"
    /\ openObjects = NoObjects
    /\ gpc = "spawn"
    /\ commits = <<>>
    /\ \E order \in Perms(DOMAIN Objects) : inputs = [i \in 1..Len(order) |-> Objects[order[i]]]
    /\ tasks = [buf |-> <<>>, closed |-> FALSE]
    /\ results = [closed |-> FALSE]
    /\ wg = 0
    /\ wpc = [id \in DOMAIN Objects |-> "none"]
    /\ wval = [id \in DOMAIN Objects |-> NoData]
    /\ nodes = <<>>
    /\ edges = <<>>
    /\ docs = <<>>
    /\ hist = NoHist

\* The caller. While gpc is "spawn", inputs holds the objects the range has
\* still to start a goroutine for; while it is "refs", what is still to be
\* sent for HEAD and the branches.
ChanCaller ==
    /\ Running
    /\ CASE gpc = "spawn" /\ inputs # <<>> ->
               /\ wpc' = [wpc EXCEPT ![Head(inputs).Name] = "start"]
               /\ inputs' = Tail(inputs)
               /\ UNCHANGED <<gpc, nodes, edges, docs>>
         [] gpc = "spawn" /\ inputs = <<>> ->
               /\ gpc' = "refs"
               /\ inputs' = RefMessages(head, heads)
               /\ UNCHANGED <<wpc, nodes, edges, docs>>
         [] gpc = "refs" /\ inputs # <<>> ->
               /\ ReceiverReady(Head(inputs).chan)
               /\ IF Head(inputs).chan = "nodes"
                  THEN nodes' = Append(nodes, Head(inputs).val) /\ UNCHANGED edges
                  ELSE edges' = Append(edges, Head(inputs).val) /\ UNCHANGED nodes
               /\ inputs' = Tail(inputs)
               /\ UNCHANGED <<gpc, wpc, docs>>
         [] gpc = "refs" /\ inputs = <<>> ->
               /\ gpc' = "collect_nodes"
               /\ UNCHANGED <<inputs, wpc, nodes, edges, docs>>
         [] gpc = "collect_nodes" ->
               /\ ChanClosed("nodes")
               /\ gpc' = "collect_edges"
               /\ UNCHANGED <<inputs, wpc, nodes, edges, docs>>
         [] gpc = "collect_edges" ->
               /\ ChanClosed("edges")
               /\ gpc' = "done"
               /\ docs' = Append(docs, [nodes |-> Bag(nodes), edges |-> Bag(edges)])
               /\ UNCHANGED <<inputs, wpc, nodes, edges>>
         [] OTHER -> FALSE
    /\ UNCHANGED <<decodeVars, connVars, storeVars, repoVars, callerVars, commits, tasks, results,
                   wg, wval, hist>>

\* The goroutine of the object id: the node map is built, the node is sent,
\* the edges are sent one by one
ChanObject(id) ==
    /\ Running
    /\ CASE wpc[id] = "start" ->
               /\ wpc' = [wpc EXCEPT ![id] = "node"]
               /\ wval' = [wval EXCEPT ![id] = [panic |-> FALSE, Edges |-> ObjectEdges(Objects[id]),
                                                Nodes |-> <<Node(Objects[id], "")>>]]
               /\ UNCHANGED <<nodes, edges>>
         [] wpc[id] = "node" ->
               /\ ReceiverReady("nodes")
               /\ nodes' = nodes \o wval[id].Nodes
               /\ wpc' = [wpc EXCEPT ![id] = IF wval[id].Edges = <<>> THEN "done" ELSE "edges"]
               /\ UNCHANGED <<wval, edges>>
         [] wpc[id] = "edges" ->
               /\ ReceiverReady("edges")
               /\ edges' = Append(edges, Head(wval[id].Edges))
               /\ wval' = [wval EXCEPT ![id].Edges = Tail(@)]
               /\ wpc' = [wpc EXCEPT ![id] = IF Len(wval[id].Edges) = 1 THEN "done" ELSE "edges"]
               /\ UNCHANGED nodes
         [] OTHER -> FALSE
    /\ UNCHANGED <<decodeVars, connVars, storeVars, repoVars, callerVars, gpc, commits, inputs,
                   tasks, results, wg, docs, hist>>

ChanNext ==
    \/ ChanCaller
    \/ \E id \in DOMAIN Objects : ChanObject(id)

\* Every goroutine that can take a step is scheduled in the end.
SpecChan == InitChan /\ [][ChanNext]_vars /\ WF_vars(ChanNext)

\* C30 (SpecChan): toJsonGraph returns, with a document of one node per
\* object, a HEAD node and a node per branch.
C30_BuilderReturns ==
    <>(/\ gpc = "done"
       /\ Len(nodes) = Cardinality(DOMAIN Objects) + 1 + Len(heads))

====
